---------------------------- MODULE Spec2Model ----------------------------
(***************************************************************************)
(* A model of the conversion orchestration of rust-tui-video-convert:      *)
(* App (src/src/app.rs), VideoConverter (src/src/converter.rs),            *)
(* NativeConverter (src/src/native_converter.rs), FFmpegConverter          *)
(* (src/src/ffmpeg.rs) and the key loop of src/src/main.rs.                *)
(*                                                                         *)
(* Option<T> is modelled as a sequence: None is <<>>, Some(x) is <<x>>.    *)
(* A Result<bool, E> of a probe is one of "Ok_true", "Ok_false", "Err".    *)
(***************************************************************************)
EXTENDS Integers, Sequences, FiniteSets, TLC

None == <<>>
Some(x) == <<x>>

(***************************************************************************)
(* Bounds of the model.                                                    *)
(***************************************************************************)
\* channels created by start_conversion in one run (the request counter)
MaxRequests == 2
\* lines the external tool writes on its progress stream before it closes it
MaxLines == 3
\* length of the largest source file, in reads of BufferSize bytes
MaxChunks == 11

(***************************************************************************)
(* Program constants.                                                      *)
(***************************************************************************)
SimFrameFirst == 20
SimFrameLast == 80
BufferSize == 8192
FrameReportEvery == 10
ChunkProgressSpan == 70
ChunkProgressBase == 15
ChunkProgressCap == 85
U8Max == 255

(***************************************************************************)
(* Formats, settings and paths (converter.rs).                             *)
(***************************************************************************)
VideoFormats == {"MP4", "MKV", "AVI", "MOV", "WEBM"}

\* VideoFormat::extension
extension(f) ==
    CASE f = "MP4" -> "mp4"
      [] f = "MKV" -> "mkv"
      [] f = "AVI" -> "avi"
      [] f = "MOV" -> "mov"
      [] f = "WEBM" -> "webm"

\* the settings convert() builds itself and attaches to its own events
default_settings ==
    [resolution |-> "Original", bitrate |-> "Auto", frame_rate |-> "Original"]

(***************************************************************************)
(* Paths.  A path is the directory parent() returns and the file name, a   *)
(* sequence of pieces: a piece is a dot or a run of characters without a   *)
(* dot.  InvalidByte stands for a run that holds a byte that is not UTF-8  *)
(* and ReplacementChar for the same run with U+FFFD in its place.  The     *)
(* paths of the model have a file name, as the path of a regular file has. *)
(***************************************************************************)
Dot == "."
InvalidByte == "\\xFF"
ReplacementChar == "U+FFFD"

\* the place of the last dot of a name, 0 if it has none
LastDot(name) ==
    LET dots == {k \in DOMAIN name : name[k] = Dot} IN
    IF dots = {} THEN 0 ELSE CHOOSE k \in dots : \A j \in dots : j <= k

\* Path::file_stem: the name up to its last dot; the whole name if it has no
\* dot or only a leading one
file_stem(path) ==
    LET d == LastDot(path.name) IN
    IF d <= 1 THEN path.name ELSE SubSeq(path.name, 1, d - 1)

\* Path::extension: what follows the last dot, if it is not a leading one
path_extension(path) ==
    LET d == LastDot(path.name) IN
    IF d <= 1 THEN None ELSE Some(SubSeq(path.name, d + 1, Len(path.name)))

\* OsStr::to_string_lossy
to_string_lossy(str) ==
    [k \in DOMAIN str |-> IF str[k] = InvalidByte THEN ReplacementChar ELSE str[k]]

SourceFile == [parent |-> "videos", name |-> <<"clip", Dot, "avi">>]

\* parent.push(format!("{}.{}", stem.to_string_lossy(), target_format.extension()))
generate_output_path(source_file, target_format) ==
    [parent |-> source_file.parent,
     name   |-> to_string_lossy(file_stem(source_file)) \o <<Dot, extension(target_format)>>]

(***************************************************************************)
(* ConversionProgress and the three send_progress helpers.  The helpers of *)
(* NativeConverter and FFmpegConverter take no settings argument: their    *)
(* events carry no settings snapshot.                                      *)
(***************************************************************************)
send_progress(percent, step, source_file, target_format, output_file, is_complete, has_error, error_message, video_settings) ==
    [percent        |-> percent,
     current_step   |-> step,
     source_file    |-> source_file,
     target_format  |-> target_format,
     output_file    |-> output_file,
     is_complete    |-> is_complete,
     has_error      |-> has_error,
     error_message  |-> error_message,
     video_settings |-> video_settings]

backend_send_progress(percent, step, source_file, target_format, output_file, is_complete, has_error, error_message) ==
    send_progress(percent, step, source_file, target_format, output_file,
                  is_complete, has_error, error_message, None)

(***************************************************************************)
(* State.                                                                  *)
(***************************************************************************)
VARIABLES
    \* App
    current_tab,          \* AppTab
    files,                \* FileBrowser.files, the listing of the current directory
    selected_idx,         \* FileBrowser.selected_idx, from 1 (Rust counts from 0)
    selected_format,      \* Option<VideoFormat>
    selected_format_idx,  \* 0..4
    conversion_progress,  \* Option<ConversionProgress>
    converter_rx,         \* Option<Receiver>: Some(id of the channel)
    video_settings,       \* VideoSettings
    selected_setting,     \* AdvancedSetting
    \* the channel whose receiver the App holds
    log,                  \* every event sent on it, in order, with its sender
    received,             \* how many of them try_recv has returned
    \* execution units
    threads,              \* every thread spawned so far, in spawn order
    \* host
    native_probe,         \* what NativeConverter::check_available returns
    out_writers,          \* threads that hold the output path open for writing
    out_created,          \* a backend of the request in progress created the output file
    \* history
    nreq,                 \* channels created so far
    request,              \* Some(facts about the start_conversion call in progress)
    \* calls of the pure functions
    calc                  \* Some(a call: the function, its arguments, its result)

settings == <<video_settings, selected_setting>>
app  == <<current_tab, files, selected_idx, selected_format, selected_format_idx,
          conversion_progress, converter_rx, settings>>
host == <<native_probe, out_writers, out_created>>
chan == <<log, received>>
vars == <<app, chan, threads, host, nreq, request, calc>>

\* a queue that hands out the newest event first
PendingNewestFirst ==
    [k \in 1..(Len(log) - received) |-> log[Len(log) + 1 - k].ev]

\* the events sent and not yet received
Pending == [k \in 1..(Len(log) - received) |-> log[received + k].ev]

AppTabs == {"FileBrowser", "FormatSelection", "Converting", "Complete",
            "Settings", "Help"}
ProbeResults == {"Ok_true", "Ok_false", "Err"}

\* refresh_files: the parent directory, then the video file if it is there
Listing(exists) ==
    IF exists THEN <<"parent_dir", "video_file">> ELSE <<"parent_dir">>

\* the sender tag of the orchestrator's own events in log
Orchestrator == 0

(***************************************************************************)
(* NativeConverter::check_available and the selection of start_conversion. *)
(***************************************************************************)
\* a probe that never finds the native backend
check_available_absent == "Ok_false"

check_available == "Ok_true"

\* a match that takes a probe that failed for a tool that is there
ProbeToBoolErrAvailable(r) == r # "Ok_false"

\* match probe() { Ok(available) => available, Err(_) => false }
ProbeToBool(r) == r = "Ok_true"

\* a selection that takes the external tool whenever the native backend is out
SelectModeNoLastRung(native_available, ffmpeg_available) ==
    IF native_available THEN "NativeFFmpeg" ELSE "FFmpeg"

SelectMode(native_available, ffmpeg_available) ==
    IF native_available THEN "NativeFFmpeg"
    ELSE IF ffmpeg_available THEN "FFmpeg"
    ELSE "Simulation"

\* a selection that probes the external tool whatever the native probe said
SelectionProbesAlways(native_available) == 1

\* how many times start_conversion runs the external-tool probe
SelectionProbes(native_available) ==
    IF ~native_available THEN 1 ELSE 0

\* the selection of start_conversion: native is what check_available answers
\* and ffmpeg_at_selection what check_ffmpeg_available answers if it is run
Selection(native, ffmpeg_at_selection) ==
    LET native_available == ProbeToBool(native)
        ffmpeg_available == IF ~native_available
                            THEN ProbeToBool(ffmpeg_at_selection) ELSE FALSE
    IN [native_available |-> native_available,
        ffmpeg_available |-> ffmpeg_available,
        mode   |-> SelectMode(native_available, ffmpeg_available),
        probes |-> SelectionProbes(native_available)]

(***************************************************************************)
(* The backends' convert(): the synchronous part, before the thread.       *)
(* exists is what source_file.exists() answers.  The result names the      *)
(* threads spawned and the Result returned.                                *)
(***************************************************************************)
\* a native convert() that spawns its thread before it looks for the source
NativeConvertSpawnFirst(exists) ==
    [spawn |-> <<"native">>, result |-> IF exists THEN "Ok" ELSE "InvalidInput"]

NativeConvert(exists) ==
    IF ~exists THEN [spawn |-> <<>>, result |-> "InvalidInput"]
    ELSE [spawn |-> <<"native">>, result |-> "Ok"]

FFmpegConvert(exists) ==
    IF ~exists THEN [spawn |-> <<>>, result |-> "InvalidInput"]
    ELSE [spawn |-> <<"ffmpeg">>, result |-> "Ok"]

\* simulate_conversion never fails before spawning
SimulateConversion == [spawn |-> <<"sim">>, result |-> "Ok"]

(***************************************************************************)
(* VideoConverter::convert: the events the orchestrator sends itself, in   *)
(* order, then the threads it has spawned.  Every send precedes the spawn  *)
(* on each path of the code.                                               *)
(***************************************************************************)
InitialEvent(src, fmt, out) ==
    send_progress(0, "Initializing conversion...", src, fmt, out,
                  FALSE, FALSE, None, Some(default_settings))

\* a fallback notice that does not flag the error
NativeFallbackEventUnflagged(src, fmt, out) ==
    send_progress(0, "Native FFmpeg error: Invalid input file, falling back to simulation",
                  src, fmt, out, FALSE, FALSE, None, None)

NativeFallbackEvent(src, fmt, out) ==
    send_progress(0, "Native FFmpeg error: Invalid input file, falling back to simulation",
                  src, fmt, out, FALSE, TRUE,
                  Some("Native FFmpeg error: Invalid input file"), None)

\* a fallback notice flagged as an error that carries no message
FFmpegFallbackEventNoMessage(src, fmt, out) ==
    send_progress(0, "FFmpeg error: Invalid input file, falling back to simulation",
                  src, fmt, out, FALSE, TRUE, None, None)

FFmpegFallbackEvent(src, fmt, out) ==
    send_progress(0, "FFmpeg error: Invalid input file, falling back to simulation",
                  src, fmt, out, FALSE, TRUE,
                  Some("FFmpeg error: Invalid input file"), None)

FFmpegNotFoundEvent(src, fmt, out) ==
    send_progress(0, "FFmpeg not found, using simulation mode",
                  src, fmt, out, FALSE, FALSE, None, None)

FFmpegCheckErrorEvent(src, fmt, out) ==
    send_progress(0, "Error checking FFmpeg availability, using simulation mode",
                  src, fmt, out, FALSE, FALSE, None, Some(default_settings))

\* a NativeFFmpeg arm that goes on to the external tool when the native
\* convert() fails, and to the simulation when that fails too
ConvertNativeThenFFmpeg(src, fmt, out, exists) ==
    LET r == NativeConvert(exists)
        r2 == FFmpegConvert(exists)
    IN
    IF r.result = "Ok"
    THEN [events |-> <<InitialEvent(src, fmt, out)>>,
          spawn  |-> r.spawn, attempted |-> {"native"},
          probes |-> 0, setup_failed |-> FALSE]
    ELSE [events |-> <<InitialEvent(src, fmt, out), NativeFallbackEvent(src, fmt, out)>>,
          spawn  |-> r.spawn \o r2.spawn
                     \o (IF r2.result = "Ok" THEN <<>> ELSE SimulateConversion.spawn),
          attempted |-> {"native", "ffmpeg"},
          probes |-> 0, setup_failed |-> TRUE]

\* attempted names the backends whose convert() the arm has called
ConvertNative(src, fmt, out, exists) ==
    LET r == NativeConvert(exists) IN
    IF r.result # "Ok"
    THEN [events |-> <<InitialEvent(src, fmt, out), NativeFallbackEvent(src, fmt, out)>>,
          spawn  |-> r.spawn \o SimulateConversion.spawn, attempted |-> {"native"},
          probes |-> 0, setup_failed |-> TRUE]
    ELSE [events |-> <<InitialEvent(src, fmt, out)>>,
          spawn  |-> r.spawn, attempted |-> {"native"},
          probes |-> 0, setup_failed |-> FALSE]

ConvertFFmpeg(src, fmt, out, exists, probe) ==
    IF probe = "Ok_true"
    THEN LET r == FFmpegConvert(exists) IN
         IF r.result # "Ok"
         THEN [events |-> <<InitialEvent(src, fmt, out), FFmpegFallbackEvent(src, fmt, out)>>,
               spawn  |-> r.spawn \o SimulateConversion.spawn, attempted |-> {"ffmpeg"},
               probes |-> 1, setup_failed |-> TRUE]
         ELSE [events |-> <<InitialEvent(src, fmt, out)>>,
               spawn  |-> r.spawn, attempted |-> {"ffmpeg"},
               probes |-> 1, setup_failed |-> FALSE]
    ELSE IF probe = "Ok_false"
    THEN [events |-> <<InitialEvent(src, fmt, out), FFmpegNotFoundEvent(src, fmt, out)>>,
          spawn  |-> SimulateConversion.spawn, attempted |-> {},
          probes |-> 1, setup_failed |-> FALSE]
    ELSE [events |-> <<InitialEvent(src, fmt, out), FFmpegCheckErrorEvent(src, fmt, out)>>,
          spawn  |-> SimulateConversion.spawn, attempted |-> {},
          probes |-> 1, setup_failed |-> FALSE]

\* a Simulation arm that starts the thread without announcing the conversion
ConvertSimulationUnannounced(src, fmt, out) ==
    [events |-> <<>>,
     spawn  |-> SimulateConversion.spawn, attempted |-> {},
     probes |-> 0, setup_failed |-> FALSE]

ConvertSimulation(src, fmt, out) ==
    [events |-> <<InitialEvent(src, fmt, out)>>,
     spawn  |-> SimulateConversion.spawn, attempted |-> {},
     probes |-> 0, setup_failed |-> FALSE]

Convert(mode, src, fmt, exists, probe) ==
    LET out == generate_output_path(src, fmt) IN
    CASE mode = "Simulation"   -> ConvertSimulation(src, fmt, out)
      [] mode = "NativeFFmpeg" -> ConvertNative(src, fmt, out, exists)
      [] mode = "FFmpeg"       -> ConvertFFmpeg(src, fmt, out, exists, probe)

(***************************************************************************)
(* Threads.                                                                *)
(***************************************************************************)
FirstPc(kind) ==
    CASE kind = "sim"    -> "analyze"
      [] kind = "native" -> "start"
      [] kind = "ffmpeg" -> "start"

NewThread(kind, req, src, fmt) ==
    [req |-> req, kind |-> kind, pc |-> FirstPc(kind),
     source_file |-> src, target_format |-> fmt,
     output_file |-> generate_output_path(src, fmt),
     i |-> 0, file_size |-> 0, bytes_read |-> 0, progress |-> 0,
     duration_ms |-> 0, time_ms |-> 0, lines |-> 0, line |-> None,
     buffered |-> FALSE]

SpawnAll(kinds, req, src, fmt) ==
    [k \in 1..Len(kinds) |-> NewThread(kinds[k], req, src, fmt)]

\* A finished thread keeps no locals, and what is kept of it once the App
\* has dropped the receiver of its channel is only that it has finished.
Gone == [NewThread("sim", 0, SourceFile, "MP4") EXCEPT !.pc = "done", !.kind = "gone"]

Finished(th) ==
    IF converter_rx = Some(th.req)
    THEN [th EXCEPT !.pc = "done", !.i = 0, !.file_size = 0, !.bytes_read = 0,
                    !.progress = 0, !.duration_ms = 0, !.time_ms = 0, !.lines = 0,
                    !.line = None, !.buffered = FALSE]
    ELSE Gone

Tids == 1..Len(threads)
Alive(t) == threads[t].pc # "done"

\* a send that waits for a receiver to take the event
SendRendezvous(t, ev) ==
    /\ converter_rx = Some(threads[t].req)
    /\ log' = Append(log, [ev |-> ev, by |-> t])
    /\ UNCHANGED received

\* a send that reaches the App whatever receiver it holds
SendToAnyReceiver(t, ev) ==
    /\ log' = Append(log, [ev |-> ev, by |-> t])
    /\ UNCHANGED received

\* tx.send(ev) by thread t; the error of a send to a dropped receiver is ignored
Send(t, ev) ==
    IF converter_rx = Some(threads[t].req)
    THEN /\ log' = Append(log, [ev |-> ev, by |-> t])
         /\ UNCHANGED received
    ELSE UNCHANGED chan

Emit(t, percent, step, is_complete, has_error, error_message) ==
    Send(t, backend_send_progress(percent, step, threads[t].source_file,
                                  threads[t].target_format, threads[t].output_file,
                                  is_complete, has_error, error_message))

Goto(t, pc) == threads' = [threads EXCEPT ![t].pc = pc]
Finish(t) == threads' = [threads EXCEPT ![t] = Finished(threads[t])]

(***************************************************************************)
(* The simulation thread (converter.rs, simulate_conversion).              *)
(***************************************************************************)
SimAnalyze(t) ==
    /\ threads[t].kind = "sim" /\ threads[t].pc = "analyze"
    /\ Emit(t, 0, "Analyzing video file...", FALSE, FALSE, None)
    /\ Goto(t, "audio")
    /\ UNCHANGED <<app, host, nreq, request, calc>>

SimAudio(t) ==
    /\ threads[t].kind = "sim" /\ threads[t].pc = "audio"
    /\ Emit(t, 10, "Extracting audio stream...", FALSE, FALSE, None)
    /\ threads' = [threads EXCEPT ![t].pc = "frames", ![t].i = SimFrameFirst]
    /\ UNCHANGED <<app, host, nreq, request, calc>>

\* a frame loop that reports every tenth frame only
SimFrameByTens(t) ==
    /\ threads[t].kind = "sim" /\ threads[t].pc = "frames"
    /\ LET i == threads[t].i IN
       /\ Emit(t, i, "Converting video frame " \o ToString(i) \o "/100...",
               FALSE, FALSE, None)
       /\ IF i + 10 <= SimFrameLast
          THEN threads' = [threads EXCEPT ![t].i = i + 10]
          ELSE threads' = [threads EXCEPT ![t].pc = "mux", ![t].i = 0]
    /\ UNCHANGED <<app, host, nreq, request, calc>>

SimFrame(t) ==
    /\ threads[t].kind = "sim" /\ threads[t].pc = "frames"
    /\ LET i == threads[t].i IN
       /\ Emit(t, i, "Converting video frame " \o ToString(i) \o "/100...",
               FALSE, FALSE, None)
       /\ IF i < SimFrameLast
          THEN threads' = [threads EXCEPT ![t].i = i + 1]
          ELSE threads' = [threads EXCEPT ![t].pc = "mux", ![t].i = 0]
    /\ UNCHANGED <<app, host, nreq, request, calc>>

SimMux(t) ==
    /\ threads[t].kind = "sim" /\ threads[t].pc = "mux"
    /\ Emit(t, 90, "Muxing audio and video streams...", FALSE, FALSE, None)
    /\ Goto(t, "finalize")
    /\ UNCHANGED <<app, host, nreq, request, calc>>

\* a finalizing step that already reports completion
SimFinalizeComplete(t) ==
    /\ threads[t].kind = "sim" /\ threads[t].pc = "finalize"
    /\ Emit(t, 100, "Finalizing output file...", TRUE, FALSE, None)
    /\ Goto(t, "complete")
    /\ UNCHANGED <<app, host, nreq, request, calc>>

SimFinalize(t) ==
    /\ threads[t].kind = "sim" /\ threads[t].pc = "finalize"
    /\ Emit(t, 100, "Finalizing output file...", FALSE, FALSE, None)
    /\ Goto(t, "complete")
    /\ UNCHANGED <<app, host, nreq, request, calc>>

SimComplete(t) ==
    /\ threads[t].kind = "sim" /\ threads[t].pc = "complete"
    /\ Emit(t, 100, "Conversion complete!", TRUE, FALSE, None)
    /\ Finish(t)
    /\ UNCHANGED <<app, host, nreq, request, calc>>

SimStep(t) ==
    \/ SimAnalyze(t) \/ SimAudio(t) \/ SimFrame(t)
    \/ SimMux(t) \/ SimFinalize(t) \/ SimComplete(t)

(***************************************************************************)
(* The native thread (native_converter.rs, the closure of convert).  Each  *)
(* step is one file operation together with the one send that follows it.  *)
(* A file operation returns Ok or Err; ok is the outcome the host gives.    *)
(***************************************************************************)
\* The lengths the source file is seen with, in bytes.  Other processes may
\* delete, restore, extend or cut the file between two operations of the
\* program, so every file operation draws its outcome afresh.
SourceLengths == {0, BufferSize, MaxChunks * BufferSize}

NatDone(t) ==
    /\ threads' = [threads EXCEPT ![t] = Finished(threads[t])]
    /\ out_writers' = out_writers \ {t}

\* What is left of the closure after its last send: the return, which drops
\* the BufWriter and with it the output file.  A thread that holds no output
\* file has nothing left to do that any other part of the program can see.
\* buffered tells whether the BufWriter holds bytes it has not yet written to
\* the file: a write_all of fewer bytes than the room left in its buffer (the
\* header, the audio metadata, the codec information, the footer) only fills
\* the buffer, flush() empties it into the file, and so does the drop of a
\* BufWriter that holds bytes.
Exiting(th) ==
    [th EXCEPT !.pc = "exit", !.i = 0, !.file_size = 0, !.bytes_read = 0, !.progress = 0]

NatReturnAs(t, th) ==
    IF t \in out_writers
    THEN /\ threads' = [threads EXCEPT ![t] = Exiting(th)]
         /\ UNCHANGED out_writers
    ELSE NatDone(t)

NatReturn(t) == NatReturnAs(t, threads[t])

\* an error arm that leaves is_complete false
NatFailIncomplete(t, percent, step, msg) ==
    /\ Emit(t, percent, step, FALSE, TRUE, Some(msg))
    /\ NatReturn(t)

NatFail(t, percent, step, msg) ==
    /\ Emit(t, percent, step, TRUE, TRUE, Some(msg))
    /\ NatReturn(t)

NatExit(t) ==
    /\ threads[t].kind = "native" /\ threads[t].pc = "exit"
    /\ NatDone(t)
    /\ UNCHANGED <<app, chan, native_probe, out_created, nreq, request, calc>>

NatStart(t) ==
    /\ threads[t].kind = "native" /\ threads[t].pc = "start"
    /\ Emit(t, 0, "Starting native Rust conversion...", FALSE, FALSE, None)
    /\ Goto(t, "size")
    /\ UNCHANGED <<app, host, nreq, request, calc>>

\* get_file_size, then the "Analyzing video file" event
NatSize(t) ==
    /\ threads[t].kind = "native" /\ threads[t].pc = "size"
    /\ \E ok \in BOOLEAN, len \in SourceLengths :
          IF ok
          THEN /\ Emit(t, 5, "Analyzing video file... Size: " \o ToString(len) \o " bytes",
                       FALSE, FALSE, None)
               /\ threads' = [threads EXCEPT ![t].pc = "open", ![t].file_size = len]
               /\ UNCHANGED out_writers
          ELSE NatFail(t, 0, "Failed to get file size", "File size error")
    /\ UNCHANGED <<app, native_probe, out_created, nreq, request, calc>>

\* File::open(&source_file)
NatOpen(t) ==
    /\ threads[t].kind = "native" /\ threads[t].pc = "open"
    /\ \E ok \in BOOLEAN :
          IF ok
          THEN /\ Goto(t, "create")
               /\ UNCHANGED <<chan, out_writers>>
          ELSE NatFail(t, 0, "Failed to open input file", "Input error")
    /\ UNCHANGED <<app, native_probe, out_created, nreq, request, calc>>

\* File::create(&output_file), then the "Analyzing video structure" event
NatCreate(t) ==
    /\ threads[t].kind = "native" /\ threads[t].pc = "create"
    /\ \E ok \in BOOLEAN :
          IF ok
          THEN /\ Emit(t, 5, "Analyzing video structure and metadata...", FALSE, FALSE, None)
               /\ Goto(t, "header")
               /\ out_writers' = out_writers \cup {t}
               /\ out_created' = (out_created \/ converter_rx = Some(threads[t].req))
          ELSE /\ NatFail(t, 0, "Failed to create output file", "Output error")
               /\ UNCHANGED out_created
    /\ UNCHANGED <<app, native_probe, nreq, request, calc>>

\* writer.write_all(header), then the "Extracting and decoding audio" event
NatHeader(t) ==
    /\ threads[t].kind = "native" /\ threads[t].pc = "header"
    /\ \E ok \in BOOLEAN :
          IF ok
          THEN /\ Emit(t, 10, "Extracting and decoding audio streams...", FALSE, FALSE, None)
               /\ threads' = [threads EXCEPT ![t].pc = "audio_meta", ![t].buffered = TRUE]
               /\ UNCHANGED out_writers
          ELSE NatFail(t, 0, "Failed to write container header", "Header error")
    /\ UNCHANGED <<app, native_probe, out_created, nreq, request, calc>>

\* writer.write_all(audio_meta), then the "Processing video frames" event
NatAudioMeta(t) ==
    /\ threads[t].kind = "native" /\ threads[t].pc = "audio_meta"
    /\ \E ok \in BOOLEAN :
          IF ok
          THEN /\ Emit(t, 15, "Processing video frames...", FALSE, FALSE, None)
               /\ Goto(t, "codec")
               /\ UNCHANGED out_writers
          ELSE NatFail(t, 10, "Failed to write audio metadata", "Audio metadata error")
    /\ UNCHANGED <<app, native_probe, out_created, nreq, request, calc>>

\* writer.write_all(video_codec)
NatCodec(t) ==
    /\ threads[t].kind = "native" /\ threads[t].pc = "codec"
    /\ \E ok \in BOOLEAN :
          IF ok
          THEN /\ Goto(t, "read")
               /\ UNCHANGED <<chan, out_writers>>
          ELSE NatFail(t, 15, "Failed to write video codec info", "Video codec error")
    /\ UNCHANGED <<app, native_probe, out_created, nreq, request, calc>>

Min(a, b) == IF a < b THEN a ELSE b

\* (x as u8) of a non-negative float x = num / den: the integer part, saturated;
\* a division by zero of a positive number is +inf, which saturates too
FloatToU8(num, den) ==
    IF den = 0 THEN U8Max ELSE Min(num \div den, U8Max)

\* ((bytes_read as f64 / file_size as f64) * 70.0) as u8, before the + 15
ChunkProgressRaw(bytes_read, file_size) ==
    FloatToU8(bytes_read * ChunkProgressSpan, file_size)

\* reader.read(&mut buffer) returns Ok(n): a full buffer, or 0 at the end of
\* the file, which comes after MaxChunks reads at the latest
ReadLens(t) ==
    IF threads[t].i < MaxChunks THEN {0, BufferSize} ELSE {0}

\* One turn of the read loop up to the progress event: read a chunk, count it,
\* compute progress (u8 arithmetic: raw + 15 overflows above 255, which panics
\* in a build with overflow checks and wraps in one without), and report every
\* tenth frame.  At the end of the file: the "Muxing" event.
NatRead(t) ==
    /\ threads[t].kind = "native" /\ threads[t].pc = "read"
    /\ \E ok \in BOOLEAN, n \in ReadLens(t) :
          LET bytes_read == threads[t].bytes_read + n
              frame_count == threads[t].i + 1
              raw == ChunkProgressRaw(bytes_read, threads[t].file_size)
          IN
          IF ~ok
          THEN NatFail(t, 0, "Error reading data", "Read error")
          ELSE IF n = 0
          THEN /\ Emit(t, 85, "Muxing audio and video streams...", FALSE, FALSE, None)
               /\ threads' = [threads EXCEPT ![t].pc = "finalize"]
               /\ UNCHANGED out_writers
          ELSE IF raw + ChunkProgressBase > U8Max
          THEN \E overflow_checks \in BOOLEAN :
                 IF overflow_checks
                 THEN \* the thread panics: no event, the files are closed
                      /\ NatDone(t)
                      /\ UNCHANGED chan
                 ELSE LET progress == Min((raw + ChunkProgressBase) % (U8Max + 1), ChunkProgressCap) IN
                      /\ threads' = [threads EXCEPT ![t].pc = "write", ![t].i = frame_count,
                                        ![t].bytes_read = bytes_read, ![t].progress = progress]
                      /\ IF frame_count % FrameReportEvery = 0
                         THEN Emit(t, progress, "Processing frame " \o ToString(frame_count),
                                   FALSE, FALSE, None)
                         ELSE UNCHANGED chan
                      /\ UNCHANGED out_writers
          ELSE LET progress == Min(raw + ChunkProgressBase, ChunkProgressCap) IN
               /\ threads' = [threads EXCEPT ![t].pc = "write", ![t].i = frame_count,
                                 ![t].bytes_read = bytes_read, ![t].progress = progress]
               /\ IF frame_count % FrameReportEvery = 0
                  THEN Emit(t, progress, "Processing frame " \o ToString(frame_count),
                            FALSE, FALSE, None)
                  ELSE UNCHANGED chan
               /\ UNCHANGED out_writers
    /\ UNCHANGED <<app, native_probe, out_created, nreq, request, calc>>

\* writer.write_all(&processed_data): the chunk does not fit in the buffer, so
\* the BufWriter first writes the bytes it holds to the file, and then the
\* chunk itself
NatWrite(t) ==
    /\ threads[t].kind = "native" /\ threads[t].pc = "write"
    /\ \E ok \in BOOLEAN :
          IF ~ok
          THEN NatFail(t, threads[t].progress, "Error writing video data", "Write error")
          ELSE IF threads[t].buffered
          THEN /\ threads' = [threads EXCEPT ![t].buffered = FALSE]
               /\ UNCHANGED <<chan, out_writers>>
          ELSE /\ Goto(t, "read")
               /\ UNCHANGED <<chan, out_writers>>
    /\ UNCHANGED <<app, native_probe, out_created, nreq, request, calc>>

NatFinalize(t) ==
    /\ threads[t].kind = "native" /\ threads[t].pc = "finalize"
    /\ Emit(t, 95, "Finalizing container format...", FALSE, FALSE, None)
    /\ Goto(t, "flush")
    /\ UNCHANGED <<app, host, nreq, request, calc>>

\* writer.flush()
NatFlush(t) ==
    /\ threads[t].kind = "native" /\ threads[t].pc = "flush"
    /\ \E ok \in BOOLEAN :
          IF ok
          THEN /\ threads' = [threads EXCEPT ![t].pc = "footer", ![t].buffered = FALSE]
               /\ UNCHANGED <<chan, out_writers>>
          ELSE NatFail(t, 95, "Failed to finalize output", "Finalize error")
    /\ UNCHANGED <<app, native_probe, out_created, nreq, request, calc>>

\* writer.write_all(footer), then the completion event
NatFooter(t) ==
    /\ threads[t].kind = "native" /\ threads[t].pc = "footer"
    /\ \E ok \in BOOLEAN :
          IF ok
          THEN /\ Emit(t, 100, "Conversion complete!", TRUE, FALSE, None)
               /\ NatReturnAs(t, [threads[t] EXCEPT !.buffered = TRUE])
          ELSE NatFail(t, 95, "Failed to write container footer", "Footer error")
    /\ UNCHANGED <<app, native_probe, out_created, nreq, request, calc>>

NativeStep(t) ==
    \/ NatStart(t) \/ NatSize(t) \/ NatOpen(t) \/ NatCreate(t) \/ NatHeader(t)
    \/ NatAudioMeta(t) \/ NatCodec(t) \/ NatRead(t) \/ NatWrite(t)
    \/ NatFinalize(t) \/ NatFlush(t) \/ NatFooter(t) \/ NatExit(t)

(***************************************************************************)
(* The external-tool thread (ffmpeg.rs, the closure of convert).           *)
(***************************************************************************)
\* what get_video_duration yields, in seconds (0: the query failed)
ProbedDurations == {0, 2}
\* values of out_time_ms= lines, and of duration= lines (seconds)
TimeValues == {500, 3000}
DurationValues == {0, 2}

\* the lines of the tool's progress stream: a key and, where it parses, a value
ProgressLines ==
    [key : {"out_time_ms"}, val : TimeValues]
    \cup [key : {"duration"}, val : DurationValues]
    \cup [key : {"out_time_ms_unparsable", "duration_unparsable", "progress_end",
                 "unrecognised", "read_error"}, val : {0}]

\* ((time_ms / duration_ms) * 100.0).min(100.0) as u8
FFmpegPercent(time_ms, duration_ms) ==
    Min((time_ms * 100) \div duration_ms, 100)

\* after the loop over the lines its locals are dead; what is kept is the
\* line at which the loop was left, if it was left at one
Waiting(th) ==
    [th EXCEPT !.pc = "wait", !.duration_ms = 0, !.time_ms = 0, !.lines = 0, !.line = None]

FfStart(t) ==
    /\ threads[t].kind = "ffmpeg" /\ threads[t].pc = "start"
    /\ Emit(t, 0, "Starting FFmpeg conversion...", FALSE, FALSE, None)
    /\ Goto(t, "duration")
    /\ UNCHANGED <<app, host, nreq, request, calc>>

\* get_video_duration, then the "Analyzing video file" event
FfDuration(t) ==
    /\ threads[t].kind = "ffmpeg" /\ threads[t].pc = "duration"
    /\ \E d \in ProbedDurations :
          Emit(t, 0, "Analyzing video file... Duration: " \o ToString(d) \o " seconds",
               FALSE, FALSE, None)
    /\ Goto(t, "spawn")
    /\ UNCHANGED <<app, host, nreq, request, calc>>

\* cmd.spawn(): the child process writes the output path
FfSpawn(t) ==
    /\ threads[t].kind = "ffmpeg" /\ threads[t].pc = "spawn"
    /\ \E ok \in BOOLEAN :
          IF ok
          THEN /\ Goto(t, "lines")
               /\ out_writers' = out_writers \cup {t}
               /\ out_created' = (out_created \/ converter_rx = Some(threads[t].req))
               /\ UNCHANGED chan
          ELSE /\ Emit(t, 0, "Failed to start FFmpeg", TRUE, TRUE, Some("Failed to start FFmpeg"))
               /\ Finish(t)
               /\ UNCHANGED <<out_writers, out_created>>
    /\ UNCHANGED <<app, native_probe, nreq, request, calc>>

\* a loop that knows no end marker
IsEndMarkerNever(line) == FALSE

\* line == "progress=end"
IsEndMarker(line) == line.key = "progress_end"

\* a loop that takes a value that does not parse for 0
FfLineUnparsedAsZero(t) ==
    /\ threads[t].kind = "ffmpeg" /\ threads[t].pc = "lines"
    /\ threads[t].lines < MaxLines
    /\ \E line \in ProgressLines :
          LET th == [threads[t] EXCEPT !.lines = @ + 1, !.line = Some(line)] IN
          CASE line.key \in {"out_time_ms", "out_time_ms_unparsable"} ->
                 /\ threads' = [threads EXCEPT ![t] = [th EXCEPT !.time_ms = line.val]]
                 /\ IF th.duration_ms > 0
                    THEN LET percent == FFmpegPercent(line.val, th.duration_ms) IN
                         Emit(t, percent, "Converting video... " \o ToString(percent) \o "%",
                              FALSE, FALSE, None)
                    ELSE UNCHANGED chan
            [] line.key \in {"duration", "duration_unparsable"} ->
                 /\ threads' = [threads EXCEPT ![t] = [th EXCEPT !.duration_ms = line.val * 1000]]
                 /\ UNCHANGED chan
            [] IsEndMarker(line) ->
                 /\ Emit(t, 100, "Conversion complete!", TRUE, FALSE, None)
                 /\ threads' = [threads EXCEPT ![t] = [Waiting(th) EXCEPT !.line = Some(line)]]
            [] OTHER ->
                 /\ threads' = [threads EXCEPT ![t] = th]
                 /\ UNCHANGED chan
    /\ UNCHANGED <<app, host, nreq, request, calc>>

\* one turn of `for line in reader.lines()`
FfLine(t) ==
    /\ threads[t].kind = "ffmpeg" /\ threads[t].pc = "lines"
    /\ threads[t].lines < MaxLines
    /\ \E line \in ProgressLines :
          LET th == [threads[t] EXCEPT !.lines = @ + 1, !.line = Some(line)] IN
          CASE line.key = "out_time_ms" ->
                 /\ threads' = [threads EXCEPT ![t] = [th EXCEPT !.time_ms = line.val]]
                 /\ IF th.duration_ms > 0
                    THEN LET percent == FFmpegPercent(line.val, th.duration_ms) IN
                         Emit(t, percent, "Converting video... " \o ToString(percent) \o "%",
                              FALSE, FALSE, None)
                    ELSE UNCHANGED chan
            [] line.key = "duration" ->
                 /\ threads' = [threads EXCEPT ![t] = [th EXCEPT !.duration_ms = line.val * 1000]]
                 /\ UNCHANGED chan
            [] IsEndMarker(line) ->
                 /\ Emit(t, 100, "Conversion complete!", TRUE, FALSE, None)
                 /\ threads' = [threads EXCEPT ![t] = [Waiting(th) EXCEPT !.line = Some(line)]]
            [] OTHER ->
                 /\ threads' = [threads EXCEPT ![t] = th]
                 /\ UNCHANGED chan
    /\ UNCHANGED <<app, host, nreq, request, calc>>

\* the stream ends
FfEndOfStream(t) ==
    /\ threads[t].kind = "ffmpeg" /\ threads[t].pc = "lines"
    /\ threads' = [threads EXCEPT ![t] = Waiting(threads[t])]
    /\ UNCHANGED <<app, chan, host, nreq, request, calc>>

ExitStatuses == {"success", "exit_code", "signal", "wait_error"}

\* a wait whose error events leave is_complete false
FfWaitErrorsIncomplete(t) ==
    /\ threads[t].kind = "ffmpeg" /\ threads[t].pc = "wait"
    /\ \E status \in ExitStatuses :
          CASE status = "success" -> UNCHANGED chan
            [] status = "exit_code" ->
                 Emit(t, 0, "FFmpeg failed with exit code: 1", FALSE, TRUE,
                      Some("FFmpeg process failed with status: 1"))
            [] status = "signal" ->
                 Emit(t, 0, "FFmpeg process terminated by signal", FALSE, TRUE,
                      Some("FFmpeg process terminated by signal"))
            [] status = "wait_error" ->
                 Emit(t, 0, "Error waiting for FFmpeg", FALSE, TRUE,
                      Some("Error waiting for FFmpeg"))
    /\ Finish(t)
    /\ out_writers' = out_writers \ {t}
    /\ UNCHANGED <<app, native_probe, out_created, nreq, request, calc>>

\* child.wait()
FfWait(t) ==
    /\ threads[t].kind = "ffmpeg" /\ threads[t].pc = "wait"
    /\ \E status \in ExitStatuses :
          CASE status = "success" -> UNCHANGED chan
            [] status = "exit_code" ->
                 Emit(t, 0, "FFmpeg failed with exit code: 1", TRUE, TRUE,
                      Some("FFmpeg process failed with status: 1"))
            [] status = "signal" ->
                 Emit(t, 0, "FFmpeg process terminated by signal", TRUE, TRUE,
                      Some("FFmpeg process terminated by signal"))
            [] status = "wait_error" ->
                 Emit(t, 0, "Error waiting for FFmpeg", TRUE, TRUE,
                      Some("Error waiting for FFmpeg"))
    /\ Finish(t)
    /\ out_writers' = out_writers \ {t}
    /\ UNCHANGED <<app, native_probe, out_created, nreq, request, calc>>

FFmpegStep(t) ==
    \/ FfStart(t) \/ FfDuration(t) \/ FfSpawn(t) \/ FfLine(t)
    \/ FfEndOfStream(t) \/ FfWait(t)

ThreadStep(t) == SimStep(t) \/ NativeStep(t) \/ FFmpegStep(t)

(***************************************************************************)
(* App (app.rs) under the key loop of main.rs.                             *)
(***************************************************************************)
FormatAt(idx) ==
    CASE idx = 0 -> "MP4"
      [] idx = 1 -> "MKV"
      [] idx = 2 -> "AVI"
      [] idx = 3 -> "MOV"
      [] OTHER   -> "WEBM"

get_current_format ==
    IF selected_format = None THEN "MP4" ELSE selected_format[1]

\* a cycle that goes through the tabs of a conversion too
next_tab_through_all(tab) ==
    CASE tab = "FileBrowser"     -> "FormatSelection"
      [] tab = "FormatSelection" -> "Settings"
      [] tab = "Settings"        -> "Help"
      [] tab = "Help"            -> "Converting"
      [] tab = "Converting"      -> "Complete"
      [] tab = "Complete"        -> "FileBrowser"

next_tab(tab) ==
    CASE tab = "FileBrowser"     -> "FormatSelection"
      [] tab = "FormatSelection" -> "Settings"
      [] tab = "Settings"        -> "Help"
      [] tab = "Help"            -> "FileBrowser"
      [] tab = "Converting"      -> "Converting"
      [] tab = "Complete"        -> "Complete"

previous_tab(tab) ==
    CASE tab = "FileBrowser"     -> "Help"
      [] tab = "FormatSelection" -> "FileBrowser"
      [] tab = "Settings"        -> "FormatSelection"
      [] tab = "Help"            -> "Settings"
      [] tab = "Converting"      -> "Converting"
      [] tab = "Complete"        -> "Complete"

\* an is_file() that takes the listing's word for it
is_file_as_listed(entry, there) == entry = "video_file"

\* path.is_file() / path.is_dir() of a listed entry; there tells whether the
\* video file is on the disk at the time of the call
is_file(entry, there) == entry = "video_file" /\ there
is_dir(entry) == entry = "parent_dir"

KeyRight ==
    /\ current_tab' = next_tab(current_tab)
    /\ UNCHANGED <<files, selected_idx, selected_format, selected_format_idx,
                   conversion_progress, converter_rx, chan, threads, host, nreq, request, calc, settings>>

KeyLeft ==
    /\ current_tab' = previous_tab(current_tab)
    /\ UNCHANGED <<files, selected_idx, selected_format, selected_format_idx,
                   conversion_progress, converter_rx, chan, threads, host, nreq, request, calc, settings>>

\* Down in the file browser: file_browser.next()
KeyDownFiles ==
    /\ current_tab = "FileBrowser"
    /\ selected_idx' = IF files # <<>> THEN (selected_idx % Len(files)) + 1 ELSE selected_idx
    /\ UNCHANGED <<current_tab, files, selected_format, selected_format_idx,
                   conversion_progress, converter_rx, chan, threads, host, nreq, request, calc, settings>>

\* Up in the file browser: file_browser.previous()
KeyUpFiles ==
    /\ current_tab = "FileBrowser"
    /\ selected_idx' = IF files = <<>> THEN selected_idx
                       ELSE IF selected_idx > 1 THEN selected_idx - 1 ELSE Len(files)
    /\ UNCHANGED <<current_tab, files, selected_format, selected_format_idx,
                   conversion_progress, converter_rx, chan, threads, host, nreq, request, calc, settings>>

\* the index next_format() moves to
next_format_idx(idx) == (idx + 1) % 5

\* a previous_format() that stops at the first format
previous_format_idx_no_wrap(idx) == IF idx > 0 THEN idx - 1 ELSE 0

\* the index previous_format() moves to
previous_format_idx(idx) == IF idx > 0 THEN idx - 1 ELSE 4

\* Down in the format tab: next_format()
KeyDownFormat ==
    /\ current_tab = "FormatSelection"
    /\ selected_format_idx' = next_format_idx(selected_format_idx)
    /\ selected_format' = Some(FormatAt(selected_format_idx'))
    /\ UNCHANGED <<current_tab, files, selected_idx,
                   conversion_progress, converter_rx, chan, threads, host, nreq, request, calc, settings>>

\* Up in the format tab: previous_format()
KeyUpFormat ==
    /\ current_tab = "FormatSelection"
    /\ selected_format_idx' = previous_format_idx(selected_format_idx)
    /\ selected_format' = Some(FormatAt(selected_format_idx'))
    /\ UNCHANGED <<current_tab, files, selected_idx,
                   conversion_progress, converter_rx, chan, threads, host, nreq, request, calc, settings>>

\* Enter in the file browser: enter_directory(), else go on to the formats
EnterFileBrowser ==
    /\ current_tab = "FileBrowser"
    /\ \E there \in BOOLEAN :
         IF files # <<>> /\ is_dir(files[selected_idx])
         THEN /\ files' = Listing(there)
              /\ selected_idx' = 1
              /\ UNCHANGED current_tab
         ELSE /\ current_tab' = IF files # <<>> /\ is_file(files[selected_idx], there)
                                THEN "FormatSelection" ELSE current_tab
              /\ UNCHANGED <<files, selected_idx>>
    /\ UNCHANGED <<selected_format, selected_format_idx, conversion_progress, converter_rx,
                   chan, threads, host, nreq, request, calc, settings>>

\* one channel for the whole life of the App
new_channel_shared(created) == 1

\* mpsc::channel() in VideoConverter::new: a channel that was not there before,
\* named by its rank among the channels created
new_channel(created) == created + 1

\* the two conditions of start_conversion: an entry is selected and it is a file
CanStart(listed, idx, there) == listed # <<>> /\ is_file(listed[idx], there)

Tag(events, by) == [k \in 1..Len(events) |-> [ev |-> events[k], by |-> by]]

\* Enter in the format tab: App::start_conversion, with VideoConverter::new and
\* convert() inside it.  ffmpeg_at_selection and ffmpeg_in_convert are what the
\* external-tool probe answers if it is run; there is what is_file() sees and
\* exists what source_file.exists() answers later, in the backend's convert().
start_conversion ==
    /\ current_tab = "FormatSelection"
    /\ \E there \in BOOLEAN :
       IF CanStart(files, selected_idx, there)
       THEN /\ nreq < MaxRequests
            /\ \E ffmpeg_at_selection \in ProbeResults, ffmpeg_in_convert \in ProbeResults,
                  exists \in BOOLEAN :
                 LET format == get_current_format
                     sel == Selection(native_probe, ffmpeg_at_selection)
                     native_available == sel.native_available
                     ffmpeg_available == sel.ffmpeg_available
                     mode == sel.mode
                     id == new_channel(nreq)
                     r == Convert(mode, SourceFile, format, exists, ffmpeg_in_convert)
                 IN
                 /\ nreq' = nreq + 1
                 /\ converter_rx' = Some(id)
                 /\ log' = Tag(r.events, Orchestrator)
                 /\ received' = 0
                 /\ out_created' = FALSE
                 /\ threads' = threads \o SpawnAll(r.spawn, id, SourceFile, format)
                 /\ request' = Some([id |-> id, mode |-> mode,
                                     first_thread |-> Len(threads) + 1,
                                     native_available |-> native_available,
                                     ffmpeg_available |-> ffmpeg_available,
                                     ffmpeg_probes |-> sel.probes + r.probes,
                                     attempted |-> r.attempted,
                                     src_existed |-> exists,
                                     setup_failed |-> r.setup_failed])
                 /\ current_tab' = "Converting"
            /\ UNCHANGED <<files, selected_idx, selected_format, selected_format_idx,
                           conversion_progress, native_probe, out_writers, calc, settings>>
       ELSE UNCHANGED vars

\* a poll that forgets the last event when it dequeues none
polled_forgetting(rx, pending, progress, tab, taken) ==
    IF rx # None /\ pending # <<>>
    THEN [conversion_progress |-> Some(Head(pending)),
          received |-> taken + 1,
          current_tab |-> IF Head(pending).is_complete THEN "Complete" ELSE tab]
    ELSE [conversion_progress |-> None, received |-> taken, current_tab |-> tab]

\* what one poll leaves in the App: rx.try_recv() takes the oldest pending
\* event if there is a receiver and the channel is not empty, and returns at
\* once otherwise
polled(rx, pending, progress, tab, taken) ==
    IF rx # None /\ pending # <<>>
    THEN [conversion_progress |-> Some(Head(pending)),
          received |-> taken + 1,
          current_tab |-> IF Head(pending).is_complete THEN "Complete" ELSE tab]
    ELSE [conversion_progress |-> progress, received |-> taken, current_tab |-> tab]

\* App::check_conversion_progress, once per turn of the loop
check_conversion_progress ==
    /\ LET after == polled(converter_rx, Pending, conversion_progress, current_tab, received)
       IN  /\ conversion_progress' = after.conversion_progress
           /\ received' = after.received
           /\ current_tab' = after.current_tab
    /\ UNCHANGED <<files, selected_idx, selected_format, selected_format_idx, converter_rx,
                   log, threads, host, nreq, request, calc, settings>>

\* a reset that keeps the last progress event
reset_keeps_progress ==
    /\ current_tab = "Complete"
    /\ current_tab' = "FileBrowser"
    /\ converter_rx' = None
    /\ log' = <<>>
    /\ received' = 0
    /\ out_created' = FALSE
    /\ request' = None
    /\ threads' = [t \in Tids |-> IF Alive(t) THEN threads[t] ELSE Gone]
    /\ UNCHANGED <<files, selected_idx, selected_format, selected_format_idx,
                   conversion_progress, native_probe, out_writers, nreq, calc, settings>>

\* App::reset, a public method of App.  Dropping the receiver discards the channel.
AppReset ==
    /\ current_tab' = "FileBrowser"
    /\ conversion_progress' = None
    /\ converter_rx' = None
    /\ log' = <<>>
    /\ received' = 0
    /\ out_created' = FALSE
    /\ request' = None
    /\ threads' = [t \in Tids |-> IF Alive(t) THEN threads[t] ELSE Gone]
    /\ UNCHANGED <<files, selected_idx, selected_format, selected_format_idx,
                   native_probe, out_writers, nreq, calc, settings>>

\* 'n': run_app calls reset() on the Complete tab only
reset ==
    /\ current_tab = "Complete"
    /\ AppReset

(***************************************************************************)
(* The advanced settings (app.rs).  The methods are public methods of App; *)
(* run_app binds no key to them, so that in Spec the settings stay as      *)
(* App::new leaves them.  SpecSettings below has them as actions.          *)
(***************************************************************************)
next_setting ==
    /\ selected_setting' = CASE selected_setting = "Resolution" -> "Bitrate"
                             [] selected_setting = "Bitrate"    -> "FrameRate"
                             [] selected_setting = "FrameRate"  -> "Resolution"
    /\ UNCHANGED <<current_tab, files, selected_idx, selected_format, selected_format_idx,
                   conversion_progress, converter_rx, video_settings,
                   chan, threads, host, nreq, request, calc>>

previous_setting ==
    /\ selected_setting' = CASE selected_setting = "Resolution" -> "FrameRate"
                             [] selected_setting = "Bitrate"    -> "Resolution"
                             [] selected_setting = "FrameRate"  -> "Bitrate"
    /\ UNCHANGED <<current_tab, files, selected_idx, selected_format, selected_format_idx,
                   conversion_progress, converter_rx, video_settings,
                   chan, threads, host, nreq, request, calc>>

next_resolution(vs) ==
    [vs EXCEPT !.resolution = CASE vs.resolution = "Original" -> "HD720p"
                                [] vs.resolution = "HD720p"   -> "HD1080p"
                                [] vs.resolution = "HD1080p"  -> "UHD4K"
                                [] vs.resolution = "UHD4K"    -> "Original"]

next_bitrate(vs) ==
    [vs EXCEPT !.bitrate = CASE vs.bitrate = "Auto"   -> "Low"
                             [] vs.bitrate = "Low"    -> "Medium"
                             [] vs.bitrate = "Medium" -> "High"
                             [] vs.bitrate = "High"   -> "Auto"]

next_framerate(vs) ==
    [vs EXCEPT !.frame_rate = CASE vs.frame_rate = "Original" -> "FPS24"
                                [] vs.frame_rate = "FPS24"    -> "FPS30"
                                [] vs.frame_rate = "FPS30"    -> "FPS60"
                                [] vs.frame_rate = "FPS60"    -> "Original"]

\* a step back that stops at the first resolution
previous_resolution_no_wrap(vs) ==
    [vs EXCEPT !.resolution = CASE vs.resolution = "Original" -> "Original"
                                [] vs.resolution = "HD720p"   -> "Original"
                                [] vs.resolution = "HD1080p"  -> "HD720p"
                                [] vs.resolution = "UHD4K"    -> "HD1080p"]

\* the arms of change_selected_setting for increase = false
previous_resolution(vs) ==
    [vs EXCEPT !.resolution = CASE vs.resolution = "Original" -> "UHD4K"
                                [] vs.resolution = "HD720p"   -> "Original"
                                [] vs.resolution = "HD1080p"  -> "HD720p"
                                [] vs.resolution = "UHD4K"    -> "HD1080p"]

previous_bitrate(vs) ==
    [vs EXCEPT !.bitrate = CASE vs.bitrate = "Auto"   -> "High"
                             [] vs.bitrate = "Low"    -> "Auto"
                             [] vs.bitrate = "Medium" -> "Low"
                             [] vs.bitrate = "High"   -> "Medium"]

previous_framerate(vs) ==
    [vs EXCEPT !.frame_rate = CASE vs.frame_rate = "Original" -> "FPS60"
                                [] vs.frame_rate = "FPS24"    -> "Original"
                                [] vs.frame_rate = "FPS30"    -> "FPS24"
                                [] vs.frame_rate = "FPS60"    -> "FPS30"]

\* the settings change_selected_setting(increase) leaves, from the settings vs
\* with the field selected chosen
changed_setting(vs, selected, increase) ==
    CASE selected = "Resolution" ->
             IF increase THEN next_resolution(vs) ELSE previous_resolution(vs)
      [] selected = "Bitrate" ->
             IF increase THEN next_bitrate(vs) ELSE previous_bitrate(vs)
      [] selected = "FrameRate" ->
             IF increase THEN next_framerate(vs) ELSE previous_framerate(vs)

change_selected_setting(increase) ==
    /\ video_settings' = changed_setting(video_settings, selected_setting, increase)
    /\ UNCHANGED <<current_tab, files, selected_idx, selected_format, selected_format_idx,
                   conversion_progress, converter_rx, selected_setting,
                   chan, threads, host, nreq, request, calc>>

(***************************************************************************)
(* The specification.  native_probe ranges over the results the type of    *)
(* check_available admits, which start_conversion matches on; the body of  *)
(* check_available returns the one named by the definition above.  In Spec *)
(* the operator leaves the format at its default, MP4: the keys that       *)
(* change it are KeyDownFormat and KeyUpFormat.                            *)
(*                                                                         *)
(* A turn of the loop of run_app is check_conversion_progress and then at  *)
(* most one key.  The poll changes the state only while a receiver is      *)
(* held, in the tabs Converting and Complete, where the only key that acts  *)
(* is 'n' on Complete, and reset overwrites all that the poll before it    *)
(* has written: so the poll and the keys as actions of their own reach the *)
(* states the turns of the loop reach.                                     *)
(***************************************************************************)
AppNew(probes) ==
    /\ current_tab = "FileBrowser"
    /\ files = Listing(TRUE)
    /\ selected_idx = 1
    /\ selected_format = None
    /\ selected_format_idx = 0
    /\ conversion_progress = None
    /\ converter_rx = None
    /\ video_settings = default_settings
    /\ selected_setting = "Resolution"
    /\ log = <<>>
    /\ received = 0
    /\ threads = <<>>
    /\ native_probe \in probes
    /\ out_writers = {}
    /\ out_created = FALSE
    /\ nreq = 0
    /\ request = None

InitWith(probes) == AppNew(probes) /\ calc = None

Init == InitWith(ProbeResults)

Next ==
    \/ KeyRight \/ KeyLeft \/ KeyDownFiles \/ KeyUpFiles
    \/ EnterFileBrowser \/ start_conversion
    \/ check_conversion_progress \/ reset
    \/ \E t \in Tids : ThreadStep(t)

Spec == Init /\ [][Next]_vars

(***************************************************************************)
(* App with the settings methods called: the operator changes the settings *)
(* and starts a conversion.  The events that carry a settings snapshot are *)
(* sent by convert() itself, inside start_conversion.                      *)
(***************************************************************************)
NextSettings ==
    \/ next_setting \/ previous_setting
    \/ \E increase \in BOOLEAN : change_selected_setting(increase)
    \/ KeyDownFiles \/ EnterFileBrowser \/ start_conversion
    \/ check_conversion_progress

SpecSettings == Init /\ [][NextSettings]_vars

(***************************************************************************)
(* The program with the keys of the format tab: the operator walks through *)
(* the formats, picks a file and starts a conversion.                      *)
(***************************************************************************)
NextFormats ==
    \/ KeyRight \/ KeyLeft \/ KeyDownFiles \/ EnterFileBrowser
    \/ KeyDownFormat \/ KeyUpFormat
    \/ start_conversion \/ check_conversion_progress

SpecFormats == Init /\ [][NextFormats]_vars

(***************************************************************************)
(* The program under a scheduler that lets a thread that can take a step    *)
(* take one: the threads are detached operating-system threads, their       *)
(* sleeps are finite and their file operations return.  Nothing is assumed  *)
(* of the operator, who may stop pressing keys at any time.                 *)
(***************************************************************************)
ThreadsRun == WF_vars(\E t \in Tids : ThreadStep(t))

\* One conversion, and reset() called as App offers it, in any tab, so also
\* while the threads of the request are in the middle of their steps
NextAbandon ==
    \/ KeyDownFiles \/ EnterFileBrowser \/ (nreq = 0 /\ start_conversion)
    \/ check_conversion_progress \/ AppReset
    \/ \E t \in Tids : ThreadStep(t)

SpecAbandon == Init /\ [][NextAbandon]_vars /\ ThreadsRun

(***************************************************************************)
(* The program with the native probe as it is written: check_available     *)
(* returns Ok(true) whatever the host.                                     *)
(***************************************************************************)
InitNativeProbe == InitWith({check_available})

SpecNativeProbe == InitNativeProbe /\ [][Next]_vars

(***************************************************************************)
(* The pure functions of converter.rs, each applied once to arguments      *)
(* drawn from bounded sets.  A call is the function's name, its arguments  *)
(* and, once applied, its result.                                          *)
(***************************************************************************)
\* the longest file name, in pieces
MaxNameLen == 3

NamePieces == {"a", "mp4", Dot, InvalidByte}

\* file names: "." and ".." are not names of files
FileNames ==
    UNION {[1..n -> NamePieces] : n \in 1..MaxNameLen} \ {<<Dot>>, <<Dot, Dot>>}

SourcePaths == [parent : {"", "videos"}, name : FileNames]

OutputPathCalls ==
    [fn : {"generate_output_path"}, source_file : SourcePaths,
     target_format : VideoFormats, result : {None}]

(***************************************************************************)
(* Bitrate::value_kbps.                                                    *)
(***************************************************************************)
Resolutions == {"Original", "HD720p", "HD1080p", "UHD4K"}
Bitrates == {"Auto", "Low", "Medium", "High"}

\* a table whose last arm answers 0
value_kbps_default_zero(bitrate, resolution) ==
    CASE bitrate = "Auto" -> 0
      [] bitrate = "Low"    /\ resolution = "HD720p"  -> 1500
      [] bitrate = "Medium" /\ resolution = "HD720p"  -> 2500
      [] bitrate = "High"   /\ resolution = "HD720p"  -> 4000
      [] bitrate = "Low"    /\ resolution = "HD1080p" -> 3000
      [] bitrate = "Medium" /\ resolution = "HD1080p" -> 6000
      [] bitrate = "High"   /\ resolution = "HD1080p" -> 8000
      [] bitrate = "Low"    /\ resolution = "UHD4K"   -> 8000
      [] bitrate = "Medium" /\ resolution = "UHD4K"   -> 12000
      [] bitrate = "High"   /\ resolution = "UHD4K"   -> 18000
      [] OTHER -> 0

value_kbps(bitrate, resolution) ==
    CASE bitrate = "Auto" -> 0
      [] bitrate = "Low"    /\ resolution = "HD720p"  -> 1500
      [] bitrate = "Medium" /\ resolution = "HD720p"  -> 2500
      [] bitrate = "High"   /\ resolution = "HD720p"  -> 4000
      [] bitrate = "Low"    /\ resolution = "HD1080p" -> 3000
      [] bitrate = "Medium" /\ resolution = "HD1080p" -> 6000
      [] bitrate = "High"   /\ resolution = "HD1080p" -> 8000
      [] bitrate = "Low"    /\ resolution = "UHD4K"   -> 8000
      [] bitrate = "Medium" /\ resolution = "UHD4K"   -> 12000
      [] bitrate = "High"   /\ resolution = "UHD4K"   -> 18000
      [] OTHER -> 6000

ValueKbpsCalls ==
    [fn : {"value_kbps"}, bitrate : Bitrates, resolution : Resolutions, result : {None}]

(***************************************************************************)
(* VideoFormat::from_extension.  Its argument is a sequence of characters. *)
(***************************************************************************)
\* the letters of the extensions, lower case and upper case
CasePairs ==
    {<<"a", "A">>, <<"b", "B">>, <<"e", "E">>, <<"i", "I">>, <<"k", "K">>,
     <<"m", "M">>, <<"o", "O">>, <<"p", "P">>, <<"v", "V">>, <<"w", "W">>}

UpperChar(c) ==
    IF \E pr \in CasePairs : pr[1] = c
    THEN (CHOOSE pr \in CasePairs : pr[1] = c)[2] ELSE c

LowerChar(c) ==
    IF \E pr \in CasePairs : pr[2] = c
    THEN (CHOOSE pr \in CasePairs : pr[2] = c)[1] ELSE c

\* str::to_lowercase
to_lowercase(str) == [k \in DOMAIN str |-> LowerChar(str[k])]

\* the string a sequence of characters spells
RECURSIVE AsStr(_)
AsStr(chars) ==
    IF chars = <<>> THEN "" ELSE Head(chars) \o AsStr(Tail(chars))

\* a match on ext itself, not on its lower case
from_extension_as_given(ext) ==
    LET given == AsStr(ext) IN
    CASE given = "mp4"  -> Some("MP4")
      [] given = "mkv"  -> Some("MKV")
      [] given = "avi"  -> Some("AVI")
      [] given = "mov"  -> Some("MOV")
      [] given = "webm" -> Some("WEBM")
      [] OTHER -> None

from_extension(ext) ==
    LET lower == AsStr(to_lowercase(ext)) IN
    CASE lower = "mp4"  -> Some("MP4")
      [] lower = "mkv"  -> Some("MKV")
      [] lower = "avi"  -> Some("AVI")
      [] lower = "mov"  -> Some("MOV")
      [] lower = "webm" -> Some("WEBM")
      [] OTHER -> None

\* the five extensions and some that are none of them, in lower case
SupportedExtensions ==
    {<<"m", "p", "4">>, <<"m", "k", "v">>, <<"a", "v", "i">>, <<"m", "o", "v">>,
     <<"w", "e", "b", "m">>}
OtherExtensions ==
    {<<>>, <<"m", "p">>, <<"m", "p", "3">>, <<"w", "e", "b">>, <<"a", "v", "i", "i">>,
     <<"m", "p", "4", "v">>}

\* str with the letters at the places marked in upper case
Cased(str, marks) == [k \in DOMAIN str |-> IF marks[k] THEN UpperChar(str[k]) ELSE str[k]]

\* a call on every letter case of every one of these extensions; lower_case
\* is kept with the call to tell which extension ext spells
FromExtensionCalls ==
    UNION {{[fn |-> "from_extension", ext |-> Cased(str, marks), lower_case |-> str,
             result |-> None] : marks \in [DOMAIN str -> BOOLEAN]}
           : str \in SupportedExtensions \cup OtherExtensions}

Applied(result) == calc' = Some([calc[1] EXCEPT !.result = Some(result)])

CallOf(fn) == calc # None /\ calc[1].fn = fn /\ calc[1].result = None
ResultOf(fn) == calc # None /\ calc[1].fn = fn /\ calc[1].result # None

ApplyGenerateOutputPath ==
    /\ CallOf("generate_output_path")
    /\ Applied(generate_output_path(calc[1].source_file, calc[1].target_format))
    /\ UNCHANGED <<app, chan, threads, host, nreq, request>>

ApplyValueKbps ==
    /\ CallOf("value_kbps")
    /\ Applied(value_kbps(calc[1].bitrate, calc[1].resolution))
    /\ UNCHANGED <<app, chan, threads, host, nreq, request>>

\* the result is an Option<VideoFormat>: it is kept as it is, None included
ApplyFromExtension ==
    /\ CallOf("from_extension")
    /\ Applied(from_extension(calc[1].ext))
    /\ UNCHANGED <<app, chan, threads, host, nreq, request>>

\* start_conversion up to what it hands to the channel and to the threads:
\* the selection and convert(), on the answers of the three probes and of
\* source_file.exists()
\* The listing is empty, or the parent directory alone, or the parent
\* directory and the video file; there is what is_file() sees of the file.
ListedFiles == {<<>>, Listing(FALSE), Listing(TRUE)}

StartConversionCalls ==
    {c \in [fn : {"start_conversion"}, files : ListedFiles, selected_idx : 1..2,
            there : BOOLEAN, native : ProbeResults,
            ffmpeg_at_selection : ProbeResults, ffmpeg_in_convert : ProbeResults,
            exists : BOOLEAN, result : {None}] :
        c.selected_idx = 1 \/ c.selected_idx <= Len(c.files)}

\* what a start_conversion that returns at once leaves behind
NotStarted ==
    [started |-> FALSE, mode |-> "none", events |-> <<>>, spawn |-> <<>>,
     attempted |-> {}, ffmpeg_probes |-> 0]

ApplyStartConversion ==
    /\ CallOf("start_conversion")
    /\ LET sel == Selection(calc[1].native, calc[1].ffmpeg_at_selection)
           r == Convert(sel.mode, SourceFile, "MP4", calc[1].exists, calc[1].ffmpeg_in_convert)
       IN IF CanStart(calc[1].files, calc[1].selected_idx, calc[1].there)
          THEN Applied([started |-> TRUE, mode |-> sel.mode, events |-> r.events,
                        spawn |-> r.spawn, attempted |-> r.attempted,
                        ffmpeg_probes |-> sel.probes + r.probes])
          ELSE Applied(NotStarted)
    /\ UNCHANGED <<app, chan, threads, host, nreq, request>>

InitPure ==
    /\ AppNew({check_available})
    /\ \/ \E c \in OutputPathCalls : calc = Some(c)
       \/ \E c \in ValueKbpsCalls : calc = Some(c)
       \/ \E c \in FromExtensionCalls : calc = Some(c)
       \/ \E c \in StartConversionCalls : calc = Some(c)

NextPure ==
    \/ ApplyGenerateOutputPath
    \/ ApplyValueKbps
    \/ ApplyFromExtension
    \/ ApplyStartConversion

SpecPure == InitPure /\ [][NextPure]_vars

(***************************************************************************)
(* Properties.  An attempt is the run of one backend thread; its events    *)
(* are the entries of log it has sent.                                     *)
(***************************************************************************)
\* the start_conversion call in progress
Req == request[1]
OfRequest(t) == request # None /\ threads[t].req = Req.id
EventsBy(t) == SelectSeq(log, LAMBDA e : e.by = t)
SentBy(k, kinds) == log[k].by # Orchestrator /\ threads[log[k].by].kind \in kinds

\* no thread of the request can send any more
AllQuiet == request # None /\ \A t \in Tids : OfRequest(t) => ~Alive(t)

NonDecreasing(evs) ==
    \A j \in 1..(Len(evs) - 1) : evs[j].ev.percent <= evs[j + 1].ev.percent

EndsAttempt(evs) ==
    /\ evs # <<>>
    /\ LET last == evs[Len(evs)].ev IN
       \/ /\ last.is_complete /\ last.percent = 100
          /\ Cardinality({j \in DOMAIN evs : evs[j].ev.is_complete}) = 1
       \/ last.has_error

\* C1: the percents of the events of one attempt never decrease in the order
\* they are sent, and a finished attempt has ended at its only is_complete
\* event, with percent 100, or at an event with has_error.
C1_AttemptShape ==
    \A t \in Tids :
       OfRequest(t) =>
          /\ NonDecreasing(EventsBy(t))
          /\ ~Alive(t) => EndsAttempt(EventsBy(t))

\* C2: when the source file is gone by the time convert() runs, the first
\* event on the channel has has_error and no output file is created.
C2_MissingSourceFirstEvent ==
    (request # None /\ ~Req.src_existed) =>
       /\ log # <<>> /\ log[1].ev.has_error
       /\ ~out_created

\* C3: when the source file is gone by the time convert() runs, no thread is
\* spawned for the request and no event of it reports success.
C3_MissingSourceNoBackend ==
    (request # None /\ ~Req.src_existed) =>
       /\ \A t \in Tids : ~OfRequest(t)
       /\ \A k \in DOMAIN log : ~(log[k].ev.is_complete /\ ~log[k].ev.has_error)

WaitFailureSteps ==
    {"FFmpeg failed with exit code: 1", "FFmpeg process terminated by signal",
     "Error waiting for FFmpeg"}

\* C4: the event the external-tool thread sends when the process exits with a
\* non-zero code, dies of a signal or cannot be waited on has has_error and
\* not is_complete.
C4_WaitFailureEvent ==
    \A k \in DOMAIN log :
       (SentBy(k, {"ffmpeg"}) /\ log[k].ev.current_step \in WaitFailureSteps) =>
          log[k].ev.has_error /\ ~log[k].ev.is_complete

\* C5: once a native or external-tool thread has sent an error event and no
\* thread of the request is left running, the orchestrator has sent an
\* explanatory event after it and a simulation thread was started.
C5_RuntimeFallback ==
    \A k \in DOMAIN log :
       (AllQuiet /\ SentBy(k, {"native", "ffmpeg"}) /\ log[k].ev.has_error) =>
          /\ \E j \in (k + 1)..Len(log) : log[j].by = Orchestrator /\ log[j].ev.has_error
          /\ \E t \in Tids : OfRequest(t) /\ threads[t].kind = "sim"

\* C6: after a setup failure (the backend's convert() returned an error
\* without spawning) the orchestrator's event with has_error and not
\* is_complete is on the channel before every event of the fallback thread,
\* the only thread of the request is the simulation, and the App still holds
\* the receiver it was given at the start.
C6_SetupFallbackOrder ==
    (request # None /\ Req.setup_failed) =>
       /\ converter_rx = Some(Req.id)
       /\ \E k \in DOMAIN log :
             /\ log[k].by = Orchestrator
             /\ log[k].ev.has_error /\ ~log[k].ev.is_complete
             /\ \A j \in DOMAIN log : log[j].by # Orchestrator => j > k
       /\ \A t \in Tids : OfRequest(t) => threads[t].kind = "sim"

\* the fallback thread has sent events and the App has received one of them
C6_Witness ==
    /\ request # None /\ Req.setup_failed
    /\ \E j \in 1..received : SentBy(j, {"sim"})

\* C7: once no thread of the request is left running and the channel is
\* drained, the App has left the Converting tab for Complete.
C7_QuiescentComplete ==
    (AllQuiet /\ Pending = <<>>) => current_tab = "Complete"

\* C8: when neither probe reports its backend available the mode is
\* Simulation, and the simulation thread of the request can always take its
\* next step until it has finished, which it does by sending is_complete.
C8_SimulationLastRung ==
    (request # None /\ ~Req.native_available /\ ~Req.ffmpeg_available) =>
       /\ Req.mode = "Simulation"
       /\ \E t \in Tids :
             /\ OfRequest(t) /\ threads[t].kind = "sim"
             /\ IF Alive(t) THEN ENABLED SimStep(t)
                ELSE log[Len(log)].by = t /\ log[Len(log)].ev.is_complete
                     /\ ~log[Len(log)].ev.has_error

\* both probes failed and the simulation has run to its end
C8_Witness ==
    /\ request # None /\ ~Req.native_available /\ ~Req.ffmpeg_available
    /\ AllQuiet
    /\ log[Len(log)].ev.is_complete

\* C9: in a request whose native probe reported available the external-tool
\* probe has not been run, by start_conversion or by convert().
C9_NoExternalProbe ==
    (request # None /\ Req.native_available) => Req.ffmpeg_probes = 0

\* the native probe reported available and the conversion has run to its end
C9_Witness ==
    /\ request # None /\ Req.native_available
    /\ AllQuiet /\ current_tab = "Complete"

\* C10: no two running threads were spawned by the same convert() call.
C10_OneBackendRunning ==
    \A t1, t2 \in Tids :
       (Alive(t1) /\ Alive(t2) /\ threads[t1].req = threads[t2].req) => t1 = t2

\* a fallback has happened and its simulation thread is running and sending
C10_Witness ==
    /\ request # None /\ Req.setup_failed
    /\ \E t \in Tids : OfRequest(t) /\ Alive(t) /\ EventsBy(t) # <<>>

\* C11: no two threads hold the output path open for writing at the same
\* time.  Every request of Spec converts the same source to the same format,
\* so every thread writes the same path.
C11_SingleWriter ==
    \A t1, t2 \in out_writers :
       threads[t1].output_file = threads[t2].output_file => t1 = t2

\* C12: a step changes conversion_progress only by a poll that takes the
\* next event of the channel, the one after those already taken, or by a
\* reset; a poll takes one event at most; and while the App keeps its
\* receiver the events already sent stay where they are in the order.
C12_FifoStep ==
    /\ received' # received =>
          \/ /\ received' = received + 1 /\ received' <= Len(log)
             /\ conversion_progress' = Some(log[received'].ev)
             /\ log' = log
          \/ received' = 0
    /\ conversion_progress' # conversion_progress =>
          \/ received' = received + 1
          \/ conversion_progress' = None /\ converter_rx' = None
    /\ (converter_rx' = converter_rx /\ converter_rx # None) =>
          /\ Len(log') >= Len(log)
          /\ \A k \in DOMAIN log : log'[k] = log[k]

C12_FifoDelivery == [][C12_FifoStep]_vars

\* two events have been taken, the second is the one on show, more wait
C12_Witness ==
    /\ converter_rx # None /\ received >= 2 /\ Len(log) >= received + 2
    /\ conversion_progress = Some(log[received].ev)
    /\ log[received].ev # log[Len(log)].ev

\* an entry of log that ends the request: is_complete, or the has_error
\* event of a backend thread (the orchestrator's has_error events announce a
\* fallback)
TerminalEntry(e) == e.ev.is_complete \/ (e.by # Orchestrator /\ e.ev.has_error)

\* C13: on the Converting tab, a step leaves the tab, for Complete, exactly
\* when it is a poll that takes a terminal event; the poll that takes the
\* orchestrator's has_error announcement of a fallback stays on Converting.
C13_StopStep ==
    current_tab = "Converting" =>
       IF received' = received + 1 /\ TerminalEntry(log[received'])
       THEN current_tab' = "Complete"
       ELSE current_tab' = "Converting"

C13_StopOnTerminal == [][C13_StopStep]_vars

\* the fallback announcement is on show and the App is still converting
C13_Witness ==
    /\ current_tab = "Converting" /\ received >= 2
    /\ log[received].by = Orchestrator
    /\ conversion_progress = Some(log[received].ev)
    /\ log[received].ev.has_error /\ ~log[received].ev.is_complete

\* a thread whose channel the App no longer holds
Abandoned(t) == Alive(t) /\ converter_rx # Some(threads[t].req)

\* C14: the step that leaves Complete for FileBrowser, which is reset, leaves
\* the App with no receiver and no progress; and a step of a thread whose
\* receiver has been dropped changes neither the App nor its channel.
C14_ResetStep ==
    /\ (current_tab = "Complete" /\ current_tab' # "Complete") =>
          /\ current_tab' = "FileBrowser"
          /\ converter_rx' = None
          /\ conversion_progress' = None
          /\ Pending' = <<>>
    /\ \A t \in Tids :
          (Abandoned(t) /\ threads'[t] # threads[t]) => (app' = app /\ chan' = chan)

C14_ResetDropsReceiver == [][C14_ResetStep]_vars

\* reset has run and the thread of the request it ended is still waiting for
\* its process, an event yet to send
C14_Witness ==
    /\ nreq >= 1 /\ current_tab = "FileBrowser"
    /\ converter_rx = None /\ conversion_progress = None
    /\ \E t \in Tids : Abandoned(t) /\ threads[t].pc = "wait"

\* C15: the path generate_output_path returns has the parent directory of
\* the source, the file stem of the source and the extension of the format.
C15_OutputPath ==
    ResultOf("generate_output_path") =>
       LET src == calc[1].source_file
           out == calc[1].result[1]
       IN /\ out.parent = src.parent
          /\ file_stem(out) = file_stem(src)
          /\ path_extension(out) = Some(<<extension(calc[1].target_format)>>)

\* the percents of a whole simulated run, the orchestrator's event first
SimulationPercents == <<0, 0, 10>> \o [k \in 1..61 |-> 19 + k] \o <<90, 100, 100>>

InitialEntries ==
    {k \in DOMAIN log : log[k].ev.percent = 0
                        /\ log[k].ev.current_step = "Initializing conversion..."}

\* C16: in Simulation mode on a file that exists, the channel holds one
\* event with percent 0 and step "Initializing conversion...", its first;
\* the percents run 0, 0, 10, then 20, 21, ... 80 with one event for each
\* value, then 90, 100, 100; and the run ends with an event with is_complete
\* and percent 100, the only one with is_complete.
C16_SimulatedRun ==
    (request # None /\ Req.mode = "Simulation" /\ Req.src_existed) =>
       /\ InitialEntries = {1}
       /\ Len(log) <= Len(SimulationPercents)
       /\ \A k \in DOMAIN log : log[k].ev.percent = SimulationPercents[k]
       /\ \A k \in DOMAIN log : log[k].ev.is_complete <=> k = Len(SimulationPercents)
       /\ AllQuiet => Len(log) = Len(SimulationPercents)

\* a simulated run on a file that exists has sent its last event
C16_Witness ==
    /\ request # None /\ Req.mode = "Simulation" /\ Req.src_existed
    /\ AllQuiet
    /\ log[Len(log)].ev.is_complete /\ log[Len(log)].ev.percent = 100

\* C17: value_kbps answers 6000 for Medium at 1080p, 0 for Auto at every
\* resolution, and 6000 for Low, Medium and High at the resolution Original.
C17_BitrateTable ==
    ResultOf("value_kbps") =>
       LET b == calc[1].bitrate
           r == calc[1].resolution
           kbps == calc[1].result[1]
       IN /\ (b = "Medium" /\ r = "HD1080p") => kbps = 6000
          /\ b = "Auto" => kbps = 0
          /\ (b \in {"Low", "Medium", "High"} /\ r = "Original") => kbps = 6000

\* value_kbps has answered for a bitrate at the resolution Original
C17_Witness ==
    /\ ResultOf("value_kbps")
    /\ calc[1].bitrate = "Low" /\ calc[1].resolution = "Original"

\* C18: from_extension of one of the five extensions, in any letter case,
\* is a format whose extension() is that extension in lower case;
\* from_extension of F.extension() is F, for each of the five formats F;
\* and from_extension of any other extension is None.
C18_ExtensionRoundTrip ==
    ResultOf("from_extension") =>
       LET lower == calc[1].lower_case
           format == calc[1].result[1]
       IN /\ lower \in SupportedExtensions =>
                /\ format # None
                /\ extension(format[1]) = AsStr(lower)
          /\ lower \in OtherExtensions => format = None
          /\ \A f \in VideoFormats :
                extension(f) = AsStr(calc[1].ext) => format = Some(f)

\* from_extension has answered for "WebM", an extension written in both cases
C18_Witness ==
    /\ ResultOf("from_extension")
    /\ calc[1].ext = <<"W", "e", "b", "M">>
    /\ calc[1].result[1] = Some("WEBM")

RealBackends == {"native", "ffmpeg"}

\* C19: a request has called convert() on one of NativeConverter and
\* FFmpegConverter at most, the one its mode names, and has threads of one
\* of them at most.
C19_OneRealBackend ==
    request # None =>
       /\ Cardinality(Req.attempted \cap RealBackends) <= 1
       /\ Req.mode = "NativeFFmpeg" => Req.attempted \subseteq {"native"}
       /\ Req.mode = "FFmpeg" => Req.attempted \subseteq {"ffmpeg"}
       /\ Req.mode = "Simulation" => Req.attempted = {}
       /\ \A t1, t2 \in Tids :
             (OfRequest(t1) /\ OfRequest(t2)
                /\ threads[t1].kind \in RealBackends /\ threads[t2].kind \in RealBackends)
             => threads[t1].kind = threads[t2].kind

\* the native convert() has failed and the simulation has taken over
C19_Witness ==
    /\ request # None /\ Req.setup_failed /\ Req.attempted = {"native"}
    /\ \E t \in Tids : OfRequest(t) /\ threads[t].kind = "sim" /\ EventsBy(t) # <<>>

\* C20: no event of a simulation thread has has_error or an error message;
\* none but the last it sends has is_complete, and the last has: a running
\* simulation has sent none with is_complete, a finished one exactly one.
C20_SimulationCannotFail ==
    \A t \in Tids :
       (OfRequest(t) /\ threads[t].kind = "sim") =>
          LET evs == EventsBy(t)
              completes == {k \in DOMAIN evs : evs[k].ev.is_complete}
          IN /\ \A k \in DOMAIN evs :
                   ~evs[k].ev.has_error /\ evs[k].ev.error_message = None
             /\ completes = IF Alive(t) THEN {} ELSE {Len(evs)}
             /\ ~Alive(t) => evs # <<>>

\* a simulation thread has run to its end
C20_Witness ==
    \E t \in Tids :
       /\ OfRequest(t) /\ threads[t].kind = "sim" /\ ~Alive(t)
       /\ Len(EventsBy(t)) >= 2

(***************************************************************************)
(* C21: every event on the channel, of the orchestrator or of a backend,   *)
(* that has has_error = true carries an error message, and no event with   *)
(* has_error = false carries one.                                          *)
(***************************************************************************)
C21_ErrorHasMessage ==
    \A k \in 1..Len(log) : log[k].ev.has_error <=> (log[k].ev.error_message # None)

\* a backend's error event, with its message, after an event without either
C21_Witness ==
    \E j, k \in 1..Len(log) :
        /\ j < k
        /\ ~log[j].ev.has_error /\ log[j].ev.error_message = None
        /\ log[k].by # Orchestrator
        /\ log[k].ev.has_error /\ log[k].ev.error_message # None

(***************************************************************************)
(* C22: a probe of the external tool that fails with an error is taken as  *)
(* "not available" and is not reported as an error.  At the selection: the *)
(* mode is Simulation.  At the probe inside convert() in the mode FFmpeg:  *)
(* the external tool's convert() is not called.  In both cases the only    *)
(* thread started is the simulation and convert() sends no event with      *)
(* has_error = true.                                                       *)
(***************************************************************************)
ProbeFailedQuietly(r) ==
    /\ r.spawn = <<"sim">>
    /\ "ffmpeg" \notin r.attempted
    /\ \A k \in 1..Len(r.events) : ~r.events[k].has_error

C22_ProbeErrorIsUnavailable ==
    ResultOf("start_conversion") =>
        LET c == calc[1]
            r == c.result[1]
        IN
        /\ (r.started /\ c.native # "Ok_true" /\ c.ffmpeg_at_selection = "Err") =>
               r.mode = "Simulation" /\ ProbeFailedQuietly(r)
        /\ (r.mode = "FFmpeg" /\ c.ffmpeg_in_convert = "Err") =>
               ProbeFailedQuietly(r)

\* the external tool was found at the selection and its probe failed in convert()
C22_Witness ==
    /\ ResultOf("start_conversion")
    /\ calc[1].ffmpeg_at_selection = "Ok_true"
    /\ calc[1].ffmpeg_in_convert = "Err"
    /\ calc[1].result[1].mode = "FFmpeg"
    /\ calc[1].result[1].ffmpeg_probes = 2

(***************************************************************************)
(* C23: every event that carries a settings snapshot carries the settings  *)
(* of the App as they were when the conversion was started: this holds of  *)
(* the events on the channel when start_conversion returns, which are the  *)
(* events convert() has sent.                                              *)
(***************************************************************************)
C23_StartStep ==
    (converter_rx = None /\ converter_rx' # None) =>
        \A k \in 1..Len(log') :
            log'[k].ev.video_settings # None =>
                log'[k].ev.video_settings = Some(video_settings)

C23_SettingsSnapshot == [][C23_StartStep]_vars

(***************************************************************************)
(* C24: each settings field cycles and wraps at both ends.  From every     *)
(* settings the App reaches and for the field selected: a step up and a    *)
(* step down, in either order, restore the settings; four steps one way    *)
(* restore them; one step changes the selected field and leaves the other  *)
(* two as they are.                                                        *)
(***************************************************************************)
FieldOf(selected) ==
    CASE selected = "Resolution" -> "resolution"
      [] selected = "Bitrate"    -> "bitrate"
      [] selected = "FrameRate"  -> "frame_rate"

C24_SettingsCycle ==
    LET up(vs)   == changed_setting(vs, selected_setting, TRUE)
        down(vs) == changed_setting(vs, selected_setting, FALSE)
        vs0      == video_settings
    IN
    /\ down(up(vs0)) = vs0
    /\ up(down(vs0)) = vs0
    /\ up(up(up(up(vs0)))) = vs0
    /\ down(down(down(down(vs0)))) = vs0
    /\ \A increase \in BOOLEAN :
           LET vs1 == changed_setting(vs0, selected_setting, increase) IN
           \A f \in {"resolution", "bitrate", "frame_rate"} :
               (vs1[f] # vs0[f]) <=> (f = FieldOf(selected_setting))

\* every field is at its last value, where a step up wraps, and the field
\* selected is the last one
C24_Witness ==
    /\ video_settings = [resolution |-> "UHD4K", bitrate |-> "High", frame_rate |-> "FPS60"]
    /\ selected_setting = "FrameRate"

(***************************************************************************)
(* C25: a malformed line of the external tool's progress stream (a value   *)
(* of out_time_ms= or duration= that does not parse, or a line that is not *)
(* recognised) is dropped: the turn of the loop that reads it sends no     *)
(* event, leaves time_ms and duration_ms as they were, and stays in the    *)
(* loop, where the next line is read.                                      *)
(***************************************************************************)
MalformedKeys == {"out_time_ms_unparsable", "duration_unparsable", "unrecognised"}

ReadsMalformed(t) ==
    /\ t \in Tids
    /\ threads[t].kind = "ffmpeg" /\ threads[t].pc = "lines"
    /\ threads'[t].lines = threads[t].lines + 1
    /\ threads'[t].line # None
    /\ threads'[t].line[1].key \in MalformedKeys

C25_DropStep ==
    \A t \in Tids :
        ReadsMalformed(t) =>
            /\ log' = log
            /\ threads'[t].time_ms = threads[t].time_ms
            /\ threads'[t].duration_ms = threads[t].duration_ms
            /\ threads'[t].pc = "lines"

C25_MalformedLineDropped == [][C25_DropStep]_vars

\* a value that does not parse has just been read, after a duration and a
\* time that are still tracked
C25_Witness ==
    \E t \in Tids :
        /\ threads[t].kind = "ffmpeg" /\ threads[t].pc = "lines"
        /\ threads[t].line # None
        /\ threads[t].line[1].key = "out_time_ms_unparsable"
        /\ threads[t].duration_ms > 0 /\ threads[t].time_ms > 0
        /\ converter_rx = Some(threads[t].req)

(***************************************************************************)
(* C26: while the external-tool backend knows no duration (duration_ms is  *)
(* not positive), a line it reads gives no percent event and no event with *)
(* has_error = true, and the end marker still gives the event with         *)
(* is_complete = true and percent = 100.                                   *)
(***************************************************************************)
ReadsLineUnknownDuration(t) ==
    /\ t \in Tids
    /\ threads[t].kind = "ffmpeg" /\ threads[t].pc = "lines"
    /\ threads[t].duration_ms <= 0
    /\ converter_rx = Some(threads[t].req)
    /\ threads'[t].line # None
    /\ \/ threads'[t].lines = threads[t].lines + 1
       \/ threads'[t].pc = "wait"

C26_UnknownDurationStep ==
    \A t \in Tids :
        ReadsLineUnknownDuration(t) =>
            IF threads'[t].line[1].key = "progress_end"
            THEN /\ Len(log') = Len(log) + 1
                 /\ SubSeq(log', 1, Len(log)) = log
                 /\ log'[Len(log')].by = t
                 /\ log'[Len(log')].ev.is_complete
                 /\ log'[Len(log')].ev.percent = 100
                 /\ ~log'[Len(log')].ev.has_error
            ELSE log' = log

C26_UnknownDuration == [][C26_UnknownDurationStep]_vars

\* the loop was left at the end marker and no percent event was sent before:
\* the thread's events are its first two and the last one
C26_Witness ==
    \E t \in Tids :
        /\ threads[t].kind = "ffmpeg" /\ threads[t].pc = "wait"
        /\ threads[t].line # None
        /\ converter_rx = Some(threads[t].req)
        /\ Len(EventsBy(t)) = 3
        /\ EventsBy(t)[3].ev.is_complete /\ EventsBy(t)[3].ev.percent = 100

(***************************************************************************)
(* C27: after an event with has_error = true of the native backend, the    *)
(* thread that sent it sends no further event and writes nothing more to   *)
(* the output file.                                                        *)
(***************************************************************************)
Failed(t) == \E k \in 1..Len(log) : log[k].by = t /\ log[k].ev.has_error

\* bytes leave the BufWriter of thread t for the output file
WritesOutput(t) == threads[t].buffered /\ ~threads'[t].buffered

SendsEvent(t) == Len(log') = Len(log) + 1 /\ log'[Len(log')].by = t

C27_StopStep ==
    \A t \in Tids :
        (threads[t].kind = "native" /\ Failed(t)) =>
            ~SendsEvent(t) /\ ~WritesOutput(t)

C27_ErrorStopsNative == [][C27_StopStep]_vars

(***************************************************************************)
(* C28: the first event on the channel of every convert() call, in every   *)
(* mode and whether or not the source exists, is the orchestrator's own:   *)
(* percent 0, step "Initializing conversion...", is_complete and has_error *)
(* false; every event of a backend comes after it.                         *)
(***************************************************************************)
C28_InitialEventFirst ==
    converter_rx # None =>
        /\ log # <<>>
        /\ log[1].by = Orchestrator
        /\ log[1].ev.percent = 0
        /\ log[1].ev.current_step = "Initializing conversion..."
        /\ ~log[1].ev.is_complete
        /\ ~log[1].ev.has_error
        /\ \A k \in 1..Len(log) : log[k].by # Orchestrator => k > 1

\* a backend has sent its first event on the channel of a conversion whose
\* source was missing
C28_Witness ==
    /\ request # None /\ ~Req.src_existed
    /\ Len(log) >= 2
    /\ log[1].by = Orchestrator
    /\ log[Len(log)].by # Orchestrator

(***************************************************************************)
(* C29: the tabs Converting and Complete are not left by navigation.  A    *)
(* step taken in Converting leaves the tab as it is, unless it is the poll *)
(* that dequeues an event with is_complete = true, which goes to Complete; *)
(* a step taken in Complete leaves the tab as it is, unless it is reset(), *)
(* which goes to FileBrowser and drops the receiver and the progress.      *)
(***************************************************************************)
C29_TabStep ==
    /\ current_tab = "Converting" =>
           \/ current_tab' = "Converting"
           \/ /\ current_tab' = "Complete"
              /\ received' = received + 1
              /\ conversion_progress' = Some(log[received'].ev)
              /\ log[received'].ev.is_complete
    /\ current_tab = "Complete" =>
           \/ current_tab' = "Complete"
           \/ /\ current_tab' = "FileBrowser"
              /\ converter_rx' = None
              /\ conversion_progress' = None

C29_TabsNotLeft == [][C29_TabStep]_vars

\* both ways out have been taken: a conversion was started, completed and reset
C29_Witness ==
    /\ current_tab = "FileBrowser"
    /\ nreq = 1
    /\ converter_rx = None

(***************************************************************************)
(* C30: the App holds a receiver if and only if the tab is Converting or   *)
(* Complete, and it holds a progress event only in those two tabs; hence a *)
(* conversion starts only while no receiver is held, that is before the    *)
(* first conversion or after the one before it was reset.                  *)
(***************************************************************************)
ConversionTabs == {"Converting", "Complete"}

RxIffConversionTab ==
    /\ (converter_rx # None) <=> (current_tab \in ConversionTabs)
    /\ (conversion_progress # None) => (current_tab \in ConversionTabs)

C30_Step ==
    /\ RxIffConversionTab
    /\ RxIffConversionTab'
    /\ (nreq' # nreq) =>
           /\ converter_rx = None /\ conversion_progress = None /\ request = None
           /\ converter_rx' = Some(nreq')

C30_ReceiverIffConversionTab == [][C30_Step]_vars

\* the second conversion, started after the first was reset, has delivered
\* an event
C30_Witness ==
    /\ converter_rx = Some(2)
    /\ conversion_progress # None
    /\ current_tab = "Converting"

(***************************************************************************)
(* C31: the channel is created anew by each start_conversion, so that no   *)
(* event of an earlier conversion reaches a later one: every event on the  *)
(* channel the App holds, and the event the App has dequeued last, was     *)
(* sent by convert() of the request in progress or by a thread that this   *)
(* request has spawned, even while a thread of an earlier request runs.    *)
(***************************************************************************)
OfThisRequest(e) == e.by = Orchestrator \/ e.by >= Req.first_thread

C31_FreshChannel ==
    request # None =>
        /\ \A k \in 1..Len(log) : OfThisRequest(log[k])
        /\ received > 0 => conversion_progress = Some(log[received].ev)

\* the App has dequeued an event of a thread of the second request while a
\* thread of the first one still runs
C31_Witness ==
    /\ request # None /\ Req.id = 2 /\ received > 0
    /\ log[received].by # Orchestrator
    /\ \E t \in Tids : t < Req.first_thread /\ Alive(t) /\ threads[t].pc # "exit"

(***************************************************************************)
(* C32: whenever the App is in the Complete tab, conversion_progress is    *)
(* present and has is_complete = true, also after a poll in the Complete   *)
(* tab has dequeued an event sent after the first completion event.        *)
(***************************************************************************)
C32_CompleteTabProgress ==
    current_tab = "Complete" =>
        /\ conversion_progress # None
        /\ conversion_progress[1].is_complete

\* in the Complete tab the App has dequeued the exit-status error that the
\* external-tool backend sent after its completion event
C32_Witness ==
    /\ current_tab = "Complete"
    /\ received >= 2
    /\ log[received - 1].ev.is_complete /\ ~log[received - 1].ev.has_error
    /\ log[received].ev.has_error
    /\ conversion_progress = Some(log[received].ev)

(***************************************************************************)
(* C33: start_conversion has no effect unless the selected entry is a      *)
(* regular file that is there: with no entry selected, with a directory    *)
(* selected, or with a file that is no longer there, it creates no         *)
(* channel, runs no probe, sends no event and starts no thread.            *)
(***************************************************************************)
C33_NoFileNoStart ==
    ResultOf("start_conversion") =>
        LET c == calc[1]
            r == c.result[1]
            regular_file == /\ c.files # <<>>
                            /\ c.files[c.selected_idx] = "video_file"
                            /\ c.there
        IN
        /\ r.started <=> regular_file
        /\ ~regular_file => r = NotStarted

\* the selected file was listed and is no longer there
C33_Witness ==
    /\ ResultOf("start_conversion")
    /\ calc[1].files = Listing(TRUE) /\ calc[1].selected_idx = 2
    /\ ~calc[1].there
    /\ ~calc[1].result[1].started

(***************************************************************************)
(* C34: check_available always answers "available", so every conversion    *)
(* that start_conversion starts is in the mode NativeFFmpeg: the external   *)
(* tool is never probed and never started, and the simulation runs only    *)
(* after the native convert() has failed in its synchronous part.          *)
(***************************************************************************)
C34_AlwaysNativeMode ==
    /\ \A t \in Tids : threads[t].kind # "ffmpeg"
    /\ request # None =>
          /\ Req.mode = "NativeFFmpeg"
          /\ Req.native_available /\ ~Req.ffmpeg_available
          /\ Req.ffmpeg_probes = 0
          /\ Req.attempted = {"native"}
          /\ \A t \in Tids :
                OfRequest(t) =>
                    \/ threads[t].kind = "native" /\ ~Req.setup_failed
                    \/ threads[t].kind = "sim" /\ Req.setup_failed

\* the simulation runs as the fallback of a native convert() that failed
C34_Witness ==
    /\ request # None /\ Req.mode = "NativeFFmpeg" /\ Req.setup_failed
    /\ \E t \in Tids : OfRequest(t) /\ threads[t].kind = "sim" /\ Len(EventsBy(t)) >= 1

(***************************************************************************)
(* C35: when the extension of the source file is already the extension of  *)
(* the target format, generate_output_path returns the source path itself. *)
(***************************************************************************)
SameExtension(source_file, target_format) ==
    path_extension(source_file) = Some(<<extension(target_format)>>)

C35_SamePathSameExtension ==
    (ResultOf("generate_output_path")
        /\ SameExtension(calc[1].source_file, calc[1].target_format)) =>
            calc[1].result[1] = calc[1].source_file

\* what does hold: the same for the names that are valid Unicode
ValidUnicode(name) == \A k \in DOMAIN name : name[k] # InvalidByte

C35_SamePathValidNames ==
    (ResultOf("generate_output_path")
        /\ SameExtension(calc[1].source_file, calc[1].target_format)
        /\ ValidUnicode(calc[1].source_file.name)) =>
            calc[1].result[1] = calc[1].source_file

(***************************************************************************)
(* C36: every event on the channel has a percent from 0 to 100, and every  *)
(* chunk-progress event of the native backend ("Processing frame ...") has *)
(* a percent from 15 to 85, whatever the file size and the number of bytes *)
(* read.                                                                   *)
(***************************************************************************)
ChunkProgressSteps == {"Processing frame " \o ToString(n) : n \in 1..(MaxChunks + 1)}

C36_PercentRange ==
    \A k \in 1..Len(log) :
        /\ log[k].ev.percent \in 0..100
        /\ (SentBy(k, {"native"}) /\ log[k].ev.current_step \in ChunkProgressSteps) =>
               log[k].ev.percent \in ChunkProgressBase..ChunkProgressCap

(***************************************************************************)
(* C37: get_current_format is the format at selected_format_idx in the     *)
(* order MP4, MKV, AVI, MOV, WEBM, and MP4 before any navigation; the      *)
(* index stays in 0..4; next_format and previous_format undo each other    *)
(* and five steps in one direction come back to the index they left.       *)
(***************************************************************************)
RECURSIVE Times(_, _, _)
Times(n, forward, idx) ==
    IF n = 0 THEN idx
    ELSE Times(n - 1, forward,
               IF forward THEN next_format_idx(idx) ELSE previous_format_idx(idx))

C37_FormatIndex ==
    /\ selected_format_idx \in 0..4
    /\ <<FormatAt(0), FormatAt(1), FormatAt(2), FormatAt(3), FormatAt(4)>>
           = <<"MP4", "MKV", "AVI", "MOV", "WEBM">>
    /\ get_current_format = FormatAt(selected_format_idx)
    /\ selected_format = None => selected_format_idx = 0 /\ get_current_format = "MP4"
    /\ previous_format_idx(next_format_idx(selected_format_idx)) = selected_format_idx
    /\ next_format_idx(previous_format_idx(selected_format_idx)) = selected_format_idx
    /\ Times(5, TRUE, selected_format_idx) = selected_format_idx
    /\ Times(5, FALSE, selected_format_idx) = selected_format_idx

\* the operator has walked to the last format and started a conversion to it
C37_Witness ==
    /\ selected_format_idx = 4
    /\ selected_format = Some("WEBM")
    /\ request # None

(***************************************************************************)
(* C38: a poll that finds no receiver, or a receiver whose channel is      *)
(* empty, changes nothing: the tab, the last progress event and the count  *)
(* of events taken stay as they were (the poll assigns no other field),    *)
(* and the poll never waits: it can be taken in every state.               *)
(***************************************************************************)
NothingToTake == converter_rx = None \/ Pending = <<>>

C38_EmptyPollNoChange ==
    /\ ENABLED check_conversion_progress
    /\ NothingToTake =>
           polled(converter_rx, Pending, conversion_progress, current_tab, received)
               = [conversion_progress |-> conversion_progress,
                  received |-> received,
                  current_tab |-> current_tab]

\* the channel has been emptied while the unit still runs, an event is shown
C38_Witness ==
    /\ converter_rx # None
    /\ Pending = <<>>
    /\ conversion_progress # None
    /\ current_tab = "Converting"
    /\ \E t \in Tids : Alive(t)

(***************************************************************************)
(* C39: the simulation and native threads end whether or not the receiver  *)
(* of their channel still exists.  Once reset() has dropped the receiver,  *)
(* a step of such a thread sends nothing to the App and changes nothing of *)
(* it, and the thread goes on to the end of its steps: under a scheduler   *)
(* that runs the threads, no thread of a dropped request stays alive       *)
(* forever.  (The read loop of the native thread ends with the source      *)
(* file, which has at most MaxChunks chunks.)                              *)
(***************************************************************************)
AbandonedUnit(t) == Abandoned(t) /\ threads[t].kind \in {"sim", "native"}

AbandonedRunning == \E t \in Tids : AbandonedUnit(t)

C39_SilentStep ==
    \A t \in Tids :
        (AbandonedUnit(t) /\ threads'[t] # threads[t]) => UNCHANGED <<app, chan>>

C39_Terminates ==
    /\ [][C39_SilentStep]_vars
    /\ AbandonedRunning ~> ~AbandonedRunning

\* a thread of a dropped request in the middle of its steps, one send behind it
C39_Witness ==
    \E t \in Tids :
        /\ AbandonedUnit(t)
        /\ threads[t].kind = "native"
        /\ threads[t].pc = "write"
        /\ threads[t].i >= FrameReportEvery

=============================================================================
